---- MODULE Spec2Model ----
(***************************************************************************)
(* Marker recovery and gap filling of pyc3dserver                          *)
(* (src/pyc3dserver/pyc3dserver.py, lines 1627-2074).                      *)
(*                                                                         *)
(* The C3D server object `itf` is the store: per marker, three coordinate  *)
(* arrays and one residual array, each written by its own COM call.        *)
(* A strategy reads the target with get_marker_data, reads the cluster or  *)
(* donor markers, repairs frames in a private copy, and writes the copy    *)
(* back with update_marker_pos followed by update_marker_residual.         *)
(*                                                                         *)
(* Numbers.  Coordinates are integers in the unit of the model.  A float   *)
(* division of the source is a division rounded to that unit (RoundDiv),   *)
(* a square root is taken on a grid of 1/NormQ.  Unit vectors and rotation *)
(* matrices are exact when the reference markers are axis aligned, which   *)
(* is what Init provides.                                                  *)
(***************************************************************************)
EXTENDS Integers, Sequences, FiniteSets, TLC

VARIABLES
    store,      \* per marker, the stored coordinates and residuals of every frame
    mkr_scale,  \* POINT:SCALE of the file: negative for a float file
    pc,         \* per caller, where its invocation stands
    args,       \* per caller, the arguments of its invocation
    loc,        \* per caller, the private copy of the target and the outcome
    ret,        \* per caller, what the COM calls and the update functions returned
    store0      \* per caller, the store as it was when the invocation began

vars == <<store, mkr_scale, pc, args, loc, ret, store0>>

\* Number of frames of the file (get_num_frames); frames are 0-based offsets.
NFrames == 5

\* Resolution of a square root: norms are multiples of 1/NormQ.
NormQ == 100

\* The bits of a float's significand: float32 has 24, the model keeps fewer so
\* that rounding shows on small numbers.
MantBits == 6

Frames == 0..(NFrames - 1)

Axes == 1..3

Markers == {"T", "A", "B", "C"}

Procs == {1, 2}

---------------------------------------------------------------------------
(* Arithmetic of the numpy expressions.                                    *)

\* F(v) with v evaluated once: a local variable of the source.  (An operator
\* argument or a LET definition is evaluated by TLC at each of its uses.)
With(v, F(_)) == CHOOSE r \in {F(x) : x \in {v}} : TRUE

Abs(x) == IF x < 0 THEN -x ELSE x

\* Floor division for any sign of the numerator (d > 0).
FloorDiv(n, d) == IF n >= 0 THEN n \div d ELSE -((-n + d - 1) \div d)

\* n/d rounded to the nearest integer, a tie to the even one (np.round; also the
\* model of a float division's rounding).
RoundDiv(n, d) ==
    LET dd == Abs(d)
        nn == IF d < 0 THEN -n ELSE n
        q == FloorDiv(nn, dd)
        r2 == 2 * (nn - q * dd)
    IN  IF r2 < dd THEN q
        ELSE IF r2 > dd THEN q + 1
        ELSE IF q % 2 = 0 THEN q ELSE q + 1

\* ceil(n/d) for n >= 0, d > 0.
CeilDiv(n, d) == (n + d - 1) \div d

RECURSIVE IsqrtBetween(_, _, _)
IsqrtBetween(n, lo, hi) ==
    IF lo >= hi THEN lo
    ELSE LET mid == (lo + hi + 1) \div 2
         IN  IF mid * mid <= n THEN IsqrtBetween(n, mid, hi)
             ELSE IsqrtBetween(n, lo, mid - 1)

\* floor(sqrt(n)), for n below 2^31.
Isqrt(n) == IsqrtBetween(n, 0, IF n < 46340 THEN n ELSE 46340)

Zero3 == <<0, 0, 0>>

VAdd(u, v) == <<u[1] + v[1], u[2] + v[2], u[3] + v[3]>>

VSub(u, v) == <<u[1] - v[1], u[2] - v[2], u[3] - v[3]>>

VScale(k, v) == <<k * v[1], k * v[2], k * v[3]>>

VDiv(v, d) == <<RoundDiv(v[1], d), RoundDiv(v[2], d), RoundDiv(v[3], d)>>

Dot(u, v) == u[1] * v[1] + u[2] * v[2] + u[3] * v[3]

Cross(u, v) == <<u[2] * v[3] - u[3] * v[2],
                 u[3] * v[1] - u[1] * v[3],
                 u[1] * v[2] - u[2] * v[1]>>

\* np.linalg.norm, in units of 1/NormQ.
NormFx(v) == Isqrt(Dot(v, v) * NormQ * NormQ)

\* np.divide(v, norm, where=(norm != 0)): where the norm is 0 the output is left
\* uninitialized, so the value is whatever the buffer held (`junk`).
UnitOr(v, junk) ==
    LET n == NormFx(v)
    IN  IF n = 0 THEN junk
        ELSE <<RoundDiv(v[1] * NormQ, n), RoundDiv(v[2] * NormQ, n), RoundDiv(v[3] * NormQ, n)>>

\* A 3x3 matrix is a triple of rows.
MatVec(M, v) == <<Dot(M[1], v), Dot(M[2], v), Dot(M[3], v)>>

Transpose(M) == <<<<M[1][1], M[2][1], M[3][1]>>,
                  <<M[1][2], M[2][2], M[3][2]>>,
                  <<M[1][3], M[2][3], M[3][3]>>>>

MatMul(M, K) ==
    LET Kt == Transpose(K)
    IN  <<<<Dot(M[1], Kt[1]), Dot(M[1], Kt[2]), Dot(M[1], Kt[3])>>,
          <<Dot(M[2], Kt[1]), Dot(M[2], Kt[2]), Dot(M[2], Kt[3])>>,
          <<Dot(M[3], Kt[1]), Dot(M[3], Kt[2]), Dot(M[3], Kt[3])>>>>

Det(M) == Dot(M[1], Cross(M[2], M[3]))

\* np.array([vec_x.T, vec_y.T, vec_z.T]).T at one frame: the columns are x, y, z.
FromColumns(x, y, z) == <<<<x[1], y[1], z[1]>>, <<x[2], y[2], z[2]>>, <<x[3], y[3], z[3]>>>>

---------------------------------------------------------------------------
(* The store: what the COM server holds for the open file.                 *)

\* Residual values a frame can hold: -1 marks a blocked frame.
Residuals == {-1, 0, 1}

\* np.isclose(a, b) on the model's integers: the tolerance is below one unit.
IsClose(a, b) == a = b

\* is_c3d_float = mkr_scale < 0 (update_marker_pos); scale_size is |scale| for an
\* integer file and 1.0 for a float file.
ScaleSize(sc) == IF sc < 0 THEN 1 ELSE sc

\* GetPointDataEx(..., '1'): the server returns the stored number times the scale.
ScaledOf(raw, sc) == <<raw[1] * ScaleSize(sc), raw[2] * ScaleSize(sc), raw[3] * ScaleSize(sc)>>

\* get_marker_data(itf, mkr_name, blocked_nan=False): the (n, 4) array as the
\* coordinate rows and the residual column.
get_marker_data(st, sc, m) ==
    [coords |-> [f \in Frames |-> ScaledOf(st[m].pos[f], sc)],
     resid  |-> st[m].res]

\* mkr_coords_unscaled of update_marker_pos, one value: a float file keeps the
\* number, an integer file stores round(value / scale).
Unscaled_NoScale(v, sc) == v

Unscaled(v, sc) == IF sc < 0 THEN v ELSE RoundDiv(v, ScaleSize(sc))

\* np.where(np.isclose(resid, -1), False, True)
ValidMask(resid) == [f \in Frames |-> ~IsClose(resid[f], -1)]

FramesOf(mask) == {f \in Frames : mask[f]}

\* np.count_nonzero(mask)
CountValid(resid) == Cardinality(FramesOf(ValidMask(resid)))

SetMin(S) == CHOOSE x \in S : \A y \in S : x <= y

SetMax(S) == CHOOSE x \in S : \A y \in S : x >= y

\* np.searchsorted(frs, fr): the number of elements below fr (side='left').
SearchSorted(S, fr) == Cardinality({g \in S : g < fr})

\* Element i (0-based) of the ascending array of S.
Nth(S, i) == CHOOSE x \in S : Cardinality({y \in S : y < x}) = i

\* arr[i] of numpy: a negative index counts from the end; out of range raises.
IndexOk(S, i) == i < Cardinality(S) /\ i >= -Cardinality(S)

NpIndex(S, i) == IF i < 0 THEN Nth(S, Cardinality(S) + i) ELSE Nth(S, i)

\* A faulty variant of Returned: every return says updated = True.
Returned_AsUpdated(upd, cnt, coords, resid) ==
    [kind |-> "return", updated |-> TRUE, count |-> cnt, write |-> upd,
     coords |-> coords, resid |-> resid, exc |-> "none"]

\* An outcome of a strategy: what it returned or raised, and the private copy.
Returned(upd, cnt, coords, resid) ==
    [kind |-> "return", updated |-> upd, count |-> cnt, write |-> upd,
     coords |-> coords, resid |-> resid, exc |-> "none"]

Raised(exc, cnt, coords, resid) ==
    [kind |-> "raise", updated |-> FALSE, count |-> cnt, write |-> FALSE,
     coords |-> coords, resid |-> resid, exc |-> exc]

\* The first lines of every strategy: no valid frame, or no invalid frame.
NothingToDo(tgt) ==
    \/ CountValid(tgt.resid) = 0
    \/ CountValid(tgt.resid) = NFrames

\* A faulty variant of OutsideBracket: only the upper bracket frame is tested.
OutsideBracket_AboveOnly(fr, fr0, fr1) == fr >= fr1

\* if fr <= fr0 or fr >= fr1: continue
OutsideBracket(fr, fr0, fr1) == fr <= fr0 \/ fr >= fr1

\* The bracket of frame fr among the anchor frames S, as the gap fills pick it:
\* the first two anchors when none is below fr, the last two when none is above.
BracketIdx(S, fr) ==
    LET si == SearchSorted(S, fr)
        n == Cardinality(S)
    IN  IF si = 0 THEN <<0, 1>>
        ELSE IF si >= n THEN <<n - 2, n - 1>>
        ELSE <<si - 1, si>>

---------------------------------------------------------------------------
(* fill_marker_gap_pattern                                                 *)

\* (v[fr1]-v[fr0])*float32(fr-fr0)/float32(fr1-fr0)+v[fr0]
RECURSIVE Quantum(_, _)
\* The spacing of the floats around a: the least power of two q with
\* a < 2^MantBits * q.
Quantum(a, q) == IF a < (2 ^ MantBits) * q THEN q ELSE Quantum(a, 2 * q)

\* The float nearest to x (ties to even): what a float32 operation keeps of its
\* exact result.
Fl(x) ==
    IF x < 0
    THEN -(RoundDiv(-x, Quantum(-x, 1)) * Quantum(-x, 1))
    ELSE RoundDiv(x, Quantum(x, 1)) * Quantum(x, 1)

FlV(v) == <<Fl(v[1]), Fl(v[2]), Fl(v[3])>>

\* (v1-v0)*np.float32(fr-fr0)/np.float32(fr1-fr0)+v0 in float32: each operation
\* rounds its result.
Lerp(v0, v1, fr0, fr1, fr) ==
    FlV(VAdd(FlV(VDiv(FlV(VScale(fr - fr0, FlV(VSub(v1, v0)))), fr1 - fr0)), v0))

\* A faulty variant of DonorSeen: only the two bracket frames are looked at.
DonorSeen_EndsOnly(dmask, fr0, fr1) == dmask[fr0] /\ dmask[fr1]

\* not np.any(~dnr_mkr_valid_mask[fr0:fr1+1])
DonorSeen(dmask, fr0, fr1) == \A g \in fr0..fr1 : dmask[g]

\* A faulty variant of BracketFrames: a frame repaired earlier in the loop
\* counts as a bracket frame for the later ones.
BracketFrames_Live(both, w) == both \cup {f \in Frames : w.upd /\ w.resid[f] = 0}

\* both_mkr_valid_frs inside the loop: the array computed before it.
BracketFrames(both, w) == both

RECURSIVE PatternLoop(_, _, _, _, _)
PatternLoop(frs, w, dnr, dmask, at_start) ==
    IF frs = {} THEN w
    ELSE
      LET fr == SetMin(frs)
          both == BracketFrames(at_start, w)
          ix == BracketIdx(both, fr)
      IN  IF ~IndexOk(both, ix[1]) \/ ~IndexOk(both, ix[2])
          THEN [w EXCEPT !.exc = "IndexError"]
          ELSE
            LET fr0 == NpIndex(both, ix[1])
                fr1 == NpIndex(both, ix[2])
                rest == frs \ {fr}
            IN  IF OutsideBracket(fr, fr0, fr1) THEN PatternLoop(rest, w, dnr, dmask, at_start)
                ELSE IF ~dmask[fr0] \/ ~dmask[fr1] THEN PatternLoop(rest, w, dnr, dmask, at_start)
                ELSE IF ~DonorSeen(dmask, fr0, fr1) THEN PatternLoop(rest, w, dnr, dmask, at_start)
                ELSE
                  LET v_tgt == Lerp(w.coords[fr0], w.coords[fr1], fr0, fr1, fr)
                      v_dnr == Lerp(dnr.coords[fr0], dnr.coords[fr1], fr0, fr1, fr)
                      new_coords == FlV(VAdd(FlV(VSub(v_tgt, v_dnr)), dnr.coords[fr]))
                  IN  With([w EXCEPT !.coords[fr] = new_coords,
                                     !.resid[fr] = 0,
                                     !.upd = TRUE],
                           LAMBDA w2 : PatternLoop(rest, w2, dnr, dmask, at_start))

\* A faulty variant of Finish: the count returned after an update is the one
\* taken before the loop.
Finish_StaleCount(end, n_valid) ==
    With(end, LAMBDA w :
        IF w.exc # "none" THEN Raised(w.exc, n_valid, w.coords, w.resid)
        ELSE Returned(w.upd, n_valid, w.coords, w.resid))

\* A faulty variant of Finish: b_updated is not consulted, the copy is written
\* back and True returned whenever the loop ends.
Finish_AlwaysUpdated(end, n_valid) ==
    With(end, LAMBDA w :
        IF w.exc # "none" THEN Raised(w.exc, n_valid, w.coords, w.resid)
        ELSE Returned(TRUE, CountValid(w.resid), w.coords, w.resid))

\* The tail shared by the three gap fills: write back only when b_updated.
Finish(end, n_valid) ==
    With(end, LAMBDA w :
        IF w.exc # "none" THEN Raised(w.exc, n_valid, w.coords, w.resid)
        ELSE IF w.upd THEN Returned(TRUE, CountValid(w.resid), w.coords, w.resid)
        ELSE Returned(FALSE, n_valid, w.coords, w.resid))

Work(tgt) == [coords |-> tgt.coords, resid |-> tgt.resid, upd |-> FALSE, exc |-> "none"]

fill_marker_gap_pattern(tgt, dnr) ==
    LET tmask == ValidMask(tgt.resid)
        n_valid == CountValid(tgt.resid)
        dmask == ValidMask(dnr.resid)
        both == {f \in Frames : tmask[f] /\ dmask[f]}
    IN  IF NothingToDo(tgt) THEN Returned(FALSE, n_valid, tgt.coords, tgt.resid)
        ELSE IF FramesOf(dmask) = {} THEN Returned(FALSE, n_valid, tgt.coords, tgt.resid)
        ELSE IF both = {} THEN Returned(FALSE, n_valid, tgt.coords, tgt.resid)
        ELSE With(Work(tgt), LAMBDA w :
                 Finish(PatternLoop({f \in Frames : ~tmask[f]}, w, dnr, dmask, both), n_valid))

---------------------------------------------------------------------------
(* fill_marker_gap_interp                                                  *)

\* np.split(invalid_frs, np.where(np.diff(invalid_frs) != 1)[0] + 1): the maximal
\* runs of consecutive invalid frames, each as the pair <<first, last>>.
GapsIn(tmask, n_total_frs) ==
    {g \in (0..(n_total_frs - 1)) \X (0..(n_total_frs - 1)) :
        /\ g[1] <= g[2]
        /\ \A f \in g[1]..g[2] : ~tmask[f]
        /\ (g[1] = 0 \/ tmask[g[1] - 1])
        /\ (g[2] = n_total_frs - 1 \/ tmask[g[2] + 1])}

GapsOf(tmask) == GapsIn(tmask, NFrames)

\* itpl_cand_frs_mask: search_span frames before the gap and after it, inside the
\* trajectory, and valid.
CandidatesIn(g, tmask, search_span, n_total_frs) ==
    {i \in 0..(n_total_frs - 1) :
        /\ \/ (i <= g[1] - 1 /\ i > g[1] - 1 - search_span)
           \/ (i >= g[2] + 1 /\ i < g[2] + 1 + search_span)
        /\ tmask[i]}

Candidates(g, tmask, search_span) == CandidatesIn(g, tmask, search_span, NFrames)

RECURSIVE Prod(_, _, _)
\* The product of F[j] over the set S.
Prod(S, F, acc) ==
    IF S = {} THEN acc
    ELSE LET j == SetMin(S) IN Prod(S \ {j}, F, acc * F[j])

RECURSIVE Sum(_, _, _)
Sum(S, F, acc) ==
    IF S = {} THEN acc
    ELSE LET j == SetMin(S) IN Sum(S \ {j}, F, acc + F[j])

\* The polynomial of degree |X|-1 through the points (x, Y[x]), x in X, at fr:
\* what the interpolating spline is when it has no interior knot (m = k+1).
Lagrange(X, Y, fr) ==
    LET d == [i \in X |-> Prod(X \ {i}, [j \in X |-> i - j], 1)]
        n == [i \in X |-> Prod(X \ {i}, [j \in X |-> fr - j], 1)]
        w == [i \in X |-> Prod(X \ {i}, d, 1)]
    IN  RoundDiv(Sum(X, [i \in X |-> Y[i] * n[i] * w[i]], 0), Prod(X, d, 1))

\* The spline of degree 1 through the points: linear between neighbours.
Linear(X, Y, fr) ==
    LET lo == SetMax({x \in X : x <= fr})
        hi == SetMin({x \in X : x >= fr})
    IN  IF lo = hi THEN Y[lo]
        ELSE Y[lo] + RoundDiv((Y[hi] - Y[lo]) * (fr - lo), hi - lo)

\* InterpolatedUnivariateSpline(X, Y, k=k, ext='const')(fr): outside the fitted
\* domain the value at the nearest edge.  The model covers the splines that are
\* one polynomial piece (m = k+1) and the piecewise linear one (k = 1).
SplineAt(X, Y, k, fr) ==
    IF fr < SetMin(X) THEN Y[SetMin(X)]
    ELSE IF fr > SetMax(X) THEN Y[SetMax(X)]
    ELSE CASE k = 1 -> Linear(X, Y, fr)
           [] k > 1 /\ Cardinality(X) = k + 1 -> Lagrange(X, Y, fr)

\* The fit needs more points than the degree (m > k), else FITPACK raises.
FitOk(X, k) == Cardinality(X) > k

\* A faulty variant of TouchesEdge: only the first frame is tested.
TouchesEdge_FirstOnly(gap) == gap[1] = 0

\* gap.min()==0 or gap.max()==n_total_frs-1
TouchesEdge(gap) == gap[1] = 0 \/ gap[2] = NFrames - 1

\* A faulty variant of GapFrames: only the first frame of the gap is assigned.
GapFrames_FirstOnly(gap) == {gap[1]}

\* for idx, fr in enumerate(gap): the frames assigned from the fitted splines.
GapFrames(gap) == gap[1]..gap[2]

RECURSIVE InterpLoop(_, _, _, _, _, _)
InterpLoop(gaps, w, tmask, k, search_span_offset, min_needed_frs) ==
    IF gaps = {} THEN w
    ELSE
      LET gap == CHOOSE g \in gaps : \A h \in gaps : g[1] <= h[1]
          rest == gaps \ {gap}
          size == gap[2] - gap[1] + 1
          search_span == CeilDiv(size, 2) + search_span_offset
          cand == Candidates(gap, tmask, search_span)
      IN  IF TouchesEdge(gap)
          THEN InterpLoop(rest, w, tmask, k, search_span_offset, min_needed_frs)
          ELSE IF Cardinality(cand) < min_needed_frs
          THEN InterpLoop(rest, w, tmask, k, search_span_offset, min_needed_frs)
          ELSE IF ~FitOk(cand, k) THEN [w EXCEPT !.exc = "FitError"]
          ELSE
            LET Y(ax) == [i \in cand |-> w.coords[i][ax]]
                new == [fr \in gap[1]..gap[2] |->
                          <<SplineAt(cand, Y(1), k, fr),
                            SplineAt(cand, Y(2), k, fr),
                            SplineAt(cand, Y(3), k, fr)>>]
            IN  With([w EXCEPT !.coords = [f \in Frames |->
                                         IF f \in GapFrames(gap) THEN new[f] ELSE @[f]],
                                !.resid = [f \in Frames |->
                                         IF f \in GapFrames(gap) THEN 0 ELSE @[f]],
                                !.upd = TRUE],
                     LAMBDA w2 : InterpLoop(rest, w2, tmask, k, search_span_offset, min_needed_frs))

\* The spline gap fill on a recording of n_total_frs frames, followed on the
\* validity of the target alone: the gaps it skips, the fit that raises and the
\* frames it marks valid.  w is [valid, upd, exc].
RECURSIVE InterpValidLoop(_, _, _, _, _, _, _)
InterpValidLoop(gaps, w, tmask, n_total_frs, k, search_span_offset, min_needed_frs) ==
    IF gaps = {} THEN w
    ELSE
      LET gap == CHOOSE g \in gaps : \A h \in gaps : g[1] <= h[1]
          rest == gaps \ {gap}
          size == gap[2] - gap[1] + 1
          search_span == CeilDiv(size, 2) + search_span_offset
          cand == CandidatesIn(gap, tmask, search_span, n_total_frs)
      IN  IF gap[1] = 0 \/ gap[2] = n_total_frs - 1
          THEN InterpValidLoop(rest, w, tmask, n_total_frs, k, search_span_offset, min_needed_frs)
          ELSE IF Cardinality(cand) < min_needed_frs
          THEN InterpValidLoop(rest, w, tmask, n_total_frs, k, search_span_offset, min_needed_frs)
          ELSE IF ~FitOk(cand, k) THEN [w EXCEPT !.exc = "FitError"]
          ELSE InterpValidLoop(rest,
                               [w EXCEPT !.valid = [f \in DOMAIN @ |->
                                                      IF f \in GapFrames(gap) THEN TRUE ELSE @[f]],
                                         !.upd = TRUE],
                               tmask, n_total_frs, k, search_span_offset, min_needed_frs)

\* fill_marker_gap_interp on the validity mask tmask of a target of n_total_frs
\* frames: the mask the store holds afterwards, the flag returned, the exception.
InterpValid(tmask, n_total_frs, k, search_span_offset, min_needed_frs) ==
    LET n_valid == Cardinality({f \in DOMAIN tmask : tmask[f]})
        w == [valid |-> tmask, upd |-> FALSE, exc |-> "none"]
    IN  IF n_valid = 0 \/ n_valid = n_total_frs THEN w
        ELSE With(InterpValidLoop(GapsIn(tmask, n_total_frs), w, tmask, n_total_frs,
                                  k, search_span_offset, min_needed_frs),
                  LAMBDA r : IF r.exc # "none" THEN [r EXCEPT !.valid = tmask, !.upd = FALSE]
                             ELSE r)

fill_marker_gap_interp(tgt, k, search_span_offset, min_needed_frs) ==
    LET tmask == ValidMask(tgt.resid)
        n_valid == CountValid(tgt.resid)
    IN  IF NothingToDo(tgt) THEN Returned(FALSE, n_valid, tgt.coords, tgt.resid)
        ELSE With(Work(tgt), LAMBDA w :
                 Finish(InterpLoop(GapsOf(tmask), w, tmask, k,
                                   search_span_offset, min_needed_frs), n_valid))

---------------------------------------------------------------------------
(* The cluster strategies: what recover_marker_relative,                   *)
(* recover_marker_rigidbody and fill_marker_gap_rigidbody share.           *)

\* cl_mkr_valid_mask: every marker of the list valid at the frame.
\* A faulty variant of ClusterMask: a frame counts when any cluster marker is
\* valid at it (logical_or for logical_and).
ClusterMask_Any(aux, cl) ==
    [f \in Frames |-> \E i \in 1..Len(cl) : ValidMask(aux[cl[i]].resid)[f]]

ClusterMask(aux, cl) ==
    [f \in Frames |-> \A i \in 1..Len(cl) : ValidMask(aux[cl[i]].resid)[f]]

\* The keys of dict_cl_mkr_dist in insertion order: a name listed twice is one key.
DictKeys(cl) ==
    LET first == {i \in 1..Len(cl) : \A j \in 1..(i - 1) : cl[j] # cl[i]}
    IN  [r \in 1..Cardinality(first) |-> cl[Nth(first, r - 1)]]

\* np.nanmean(np.linalg.norm(cl - tgt, axis=1)) times the frame count: the mean is
\* over every frame of the file (get_marker_data was read with blocked_nan=False).
MeanDistN(tgt, mk) ==
    Sum(Frames, [f \in Frames |-> NormFx(VSub(mk.coords[f], tgt.coords[f]))], 0)

\* A faulty variant of SortKeys: of two markers equally far the later listed
\* comes first.
SortKeys_TiesReversed(keys, dist) ==
    LET rank(i) == Cardinality({j \in 1..Len(keys) :
                       dist[j] < dist[i] \/ (dist[j] = dist[i] /\ j > i)})
    IN  [r \in 1..Len(keys) |-> keys[CHOOSE i \in 1..Len(keys) : rank(i) = r - 1]]

\* sorted(dict.items(), key=lambda kv: kv[1]): ascending, ties in insertion order.
SortKeys(keys, dist) ==
    LET rank(i) == Cardinality({j \in 1..Len(keys) :
                       dist[j] < dist[i] \/ (dist[j] = dist[i] /\ j < i)})
    IN  [r \in 1..Len(keys) |-> keys[CHOOSE i \in 1..Len(keys) : rank(i) = r - 1]]

SortedByDist(tgt, aux, cl) ==
    With(DictKeys(cl), LAMBDA keys :
        With([i \in 1..Len(keys) |-> MeanDistN(tgt, aux[keys[i]])], LAMBDA dist :
            SortKeys(keys, dist)))

\* mat_rot at one frame, from the three reference markers' positions there.
FrameRot(q0, q1, q2, junk) ==
    LET vec0_unit == UnitOr(VSub(q1, q0), junk)
        vec1_unit == UnitOr(VSub(q2, q0), junk)
        vec2_unit == UnitOr(Cross(vec0_unit, vec1_unit), junk)
        vec_y == Cross(vec2_unit, vec0_unit)
    IN  FromColumns(vec0_unit, vec_y, vec2_unit)

\* (np.abs(frs - fr)).argmin(): the nearest element, the first of two equally near.
Nearest(S, fr) ==
    CHOOSE a \in S : \A b \in S :
        Abs(a - fr) < Abs(b - fr) \/ (Abs(a - fr) = Abs(b - fr) /\ a <= b)

\* A faulty variant of Blend: the weights are exchanged, a on fr0 and b on fr1.
Blend_Swapped(v0, v1, fr0, fr1, fr) ==
    VDiv(VAdd(VScale(fr - fr0, v0), VScale(fr1 - fr, v1)), (fr - fr0) + (fr1 - fr))

\* (b*v0 + a*v1)/(a+b) with a = fr-fr0, b = fr1-fr.
Blend(v0, v1, fr0, fr1, fr) ==
    VDiv(VAdd(VScale(fr1 - fr, v0), VScale(fr - fr0, v1)), (fr - fr0) + (fr1 - fr))

\* A faulty variant of ClusterUseless: "cluster markers not helpful" is not
\* tested.
ClusterUseless_AnchorsOnly(tgt, aux, cl) ==
    LET tmask == ValidMask(tgt.resid)
        cmask == ClusterMask(aux, cl)
    IN  ~\E f \in Frames : cmask[f] /\ tmask[f]

\* The checks after the cluster markers are read: "no common valid frame among
\* markers" and "cluster markers not helpful".
ClusterUseless(tgt, aux, cl) ==
    LET tmask == ValidMask(tgt.resid)
        cmask == ClusterMask(aux, cl)
    IN  \/ ~\E f \in Frames : cmask[f] /\ tmask[f]
        \/ ~\E f \in Frames : cmask[f] /\ ~tmask[f]

---------------------------------------------------------------------------
(* recover_marker_relative                                                 *)

\* A faulty variant of RigidbodyFrames: the loop is left after its first frame.
RigidbodyFrames_FirstOnly(tgt, p0, mat_rot, all_frs, only_frs) ==
    LET fr == SetMin(only_frs)
        a == Nearest(all_frs, fr)
        v == MatVec(MatMul(mat_rot[fr], Transpose(mat_rot[a])), VSub(tgt.coords[a], p0[a]))
        coords == [tgt.coords EXCEPT ![fr] = VAdd(p0[fr], v)]
        resid == [tgt.resid EXCEPT ![fr] = 0]
    IN  Returned(TRUE, CountValid(resid), coords, resid)

\* Lines 1847-1890, with the three reference trajectories chosen.
RigidbodyFrames(tgt, p0, mat_rot, all_frs, only_frs) ==
    LET vec3 == [f \in Frames |-> VSub(tgt.coords[f], p0[f])]
        vt(fr, a) == MatVec(MatMul(mat_rot[fr], Transpose(mat_rot[a])), vec3[a])
        vc(fr) ==
            LET si == SearchSorted(all_frs, fr)
            IN  IF si = 0 THEN vt(fr, Nth(all_frs, 0))
                ELSE IF si >= Cardinality(all_frs)
                THEN vt(fr, Nth(all_frs, Cardinality(all_frs) - 1))
                ELSE LET fr0 == Nth(all_frs, si - 1)
                         fr1 == Nth(all_frs, si)
                     IN  Blend(vt(fr, fr0), vt(fr, fr1), fr0, fr1, fr)
        coords == [f \in Frames |->
                     IF f \in only_frs THEN VAdd(p0[f], vc(f)) ELSE tgt.coords[f]]
        resid == [f \in Frames |-> IF f \in only_frs THEN 0 ELSE tgt.resid[f]]
    IN  With(coords, LAMBDA c : With(resid, LAMBDA r : Returned(TRUE, CountValid(r), c, r)))

RigidbodyWith(tgt, p0, p1, p2, all_frs, only_frs, junk) ==
    With([f \in Frames |-> FrameRot(p0[f], p1[f], p2[f], junk)], LAMBDA mat_rot :
        RigidbodyFrames(tgt, p0, mat_rot, all_frs, only_frs))

\* Lines 1767-1805, with the three reference trajectories chosen.
RelativeFrames(tgt, p0, mat_rot, rel, all_frs, only_frs) ==
    LET tgt_coords_rel(fr) ==
            LET si == SearchSorted(all_frs, fr)
            IN  IF si >= Cardinality(all_frs) \/ si = 0
                THEN rel[Nearest(all_frs, fr)]
                ELSE LET fr0 == Nth(all_frs, si - 1)
                         fr1 == Nth(all_frs, si)
                     IN  Blend(rel[fr0], rel[fr1], fr0, fr1, fr)
        coords == [f \in Frames |->
                     IF f \in only_frs
                     THEN VAdd(p0[f], MatVec(mat_rot[f], tgt_coords_rel(f)))
                     ELSE tgt.coords[f]]
        resid == [f \in Frames |-> IF f \in only_frs THEN 0 ELSE tgt.resid[f]]
    IN  With(coords, LAMBDA c : With(resid, LAMBDA r : Returned(TRUE, CountValid(r), c, r)))

RelativeWith(tgt, p0, p1, p2, all_frs, only_frs, junk) ==
    With([f \in Frames |-> FrameRot(p0[f], p1[f], p2[f], junk)], LAMBDA mat_rot :
        With([a \in all_frs |-> MatVec(Transpose(mat_rot[a]), VSub(tgt.coords[a], p0[a]))],
             LAMBDA rel : RelativeFrames(tgt, p0, mat_rot, rel, all_frs, only_frs)))

\* Lines 1762-1769: the three nearest cluster markers, or IndexError when the
\* cluster has fewer than three.
\* A faulty variant of WithReferences: with fewer than three cluster markers the
\* farthest one is taken again for the missing references.
WithReferences_Short(tgt, aux, srt, all_frs, only_frs, junk, relative) ==
    LET ref(i) == aux[srt[IF i <= Len(srt) THEN i ELSE Len(srt)]].coords
    IN  IF relative
        THEN RelativeWith(tgt, ref(1), ref(2), ref(3), all_frs, only_frs, junk)
        ELSE RigidbodyWith(tgt, ref(1), ref(2), ref(3), all_frs, only_frs, junk)

WithReferences(tgt, aux, srt, all_frs, only_frs, junk, relative) ==
    IF Len(srt) < 3 THEN Raised("IndexError", CountValid(tgt.resid), tgt.coords, tgt.resid)
    ELSE IF relative
    THEN RelativeWith(tgt, aux[srt[1]].coords, aux[srt[2]].coords, aux[srt[3]].coords,
                      all_frs, only_frs, junk)
    ELSE RigidbodyWith(tgt, aux[srt[1]].coords, aux[srt[2]].coords, aux[srt[3]].coords,
                       all_frs, only_frs, junk)

recover_marker_relative(tgt, aux, cl, nd) ==
    LET tmask == ValidMask(tgt.resid)
        n_valid == CountValid(tgt.resid)
        cmask == ClusterMask(aux, cl)
    IN  IF NothingToDo(tgt) THEN Returned(FALSE, n_valid, tgt.coords, tgt.resid)
        ELSE IF ClusterUseless(tgt, aux, cl) THEN Returned(FALSE, n_valid, tgt.coords, tgt.resid)
        ELSE With(SortedByDist(tgt, aux, cl), LAMBDA srt :
                 WithReferences(tgt, aux, srt,
                                {f \in Frames : cmask[f] /\ tmask[f]},
                                {f \in Frames : cmask[f] /\ ~tmask[f]}, nd.junk, TRUE))

---------------------------------------------------------------------------
(* recover_marker_rigidbody                                                *)

recover_marker_rigidbody(tgt, aux, cl, nd) ==
    LET tmask == ValidMask(tgt.resid)
        n_valid == CountValid(tgt.resid)
        cmask == ClusterMask(aux, cl)
    IN  IF NothingToDo(tgt) THEN Returned(FALSE, n_valid, tgt.coords, tgt.resid)
        ELSE IF ClusterUseless(tgt, aux, cl) THEN Returned(FALSE, n_valid, tgt.coords, tgt.resid)
        ELSE With(SortedByDist(tgt, aux, cl), LAMBDA srt :
                 WithReferences(tgt, aux, srt,
                                {f \in Frames : cmask[f] /\ tmask[f]},
                                {f \in Frames : cmask[f] /\ ~tmask[f]}, nd.junk, FALSE))

---------------------------------------------------------------------------
(* fill_marker_gap_rigidbody                                               *)

SignedAxes == {<<1, 0, 0>>, <<-1, 0, 0>>, <<0, 1, 0>>, <<0, -1, 0>>, <<0, 0, 1>>, <<0, 0, -1>>}

\* The proper rotations that map the coordinate axes onto coordinate axes: the
\* rotations a reference cluster of Init goes through.
AxisRotations == {<<u[1], u[2], Cross(u[1], u[2])>> :
                     u \in {w \in SignedAxes \X SignedAxes : Dot(w[1], w[2]) = 0}}

\* An order on matrices, to name one of several equally good fits.
MatKey(M) ==
    Sum(1..9, [i \in 1..9 |-> (M[((i - 1) \div 3) + 1][((i - 1) % 3) + 1] + 1) * (3 ^ (i - 1))], 0)

\* RBT(A, B) applied to the point t: R.t + L with L = mean(B) - R.mean(A), where R
\* is the rotation that minimises sum |R(A_i - mean A) - (B_i - mean B)|^2 (what
\* the SVD of the cross-covariance yields).  A and B are sequences of n points;
\* the sums are kept times n, and the one division is the last step.  When
\* several rotations fit equally well (two markers, or collinear ones) the SVD's
\* choice is not determined by the data: `tie` names the one taken.
RBTFit(ac, bc, tie) ==
    With([R \in AxisRotations |->
             Sum(1..Len(ac), [i \in 1..Len(ac) |->
                 LET e == VSub(MatVec(R, ac[i]), bc[i]) IN Dot(e, e)], 0)], LAMBDA cost :
        With(SetMin({cost[R] : R \in AxisRotations}), LAMBDA least :
            With({R \in AxisRotations : cost[R] = least}, LAMBDA best :
                With([R \in best |-> MatKey(R)], LAMBDA key :
                    IF tie = 0
                    THEN CHOOSE Q \in best : \A P \in best : key[Q] <= key[P]
                    ELSE CHOOSE Q \in best : \A P \in best : key[Q] >= key[P]))))

VSum(A) == <<Sum(1..Len(A), [i \in 1..Len(A) |-> A[i][1]], 0),
             Sum(1..Len(A), [i \in 1..Len(A) |-> A[i][2]], 0),
             Sum(1..Len(A), [i \in 1..Len(A) |-> A[i][3]], 0)>>

RBTApply(A, B, t, tie) ==
    With(VSum(A), LAMBDA sumA : With(VSum(B), LAMBDA sumB :
        With(RBTFit([i \in 1..Len(A) |-> VSub(VScale(Len(A), A[i]), sumA)],
                    [i \in 1..Len(B) |-> VSub(VScale(Len(B), B[i]), sumB)], tie), LAMBDA R :
            VDiv(VAdd(MatVec(R, VSub(VScale(Len(A), t), sumA)), sumB), Len(A)))))

\* The orthogonal matrices with entries -1, 0, 1: the rotations of AxisRotations
\* and their mirror images.
AxisOrthogonals ==
    {<<u[1], u[2], u[3]>> :
        u \in {w \in SignedAxes \X SignedAxes \X SignedAxes :
                  Dot(w[1], w[2]) = 0 /\ Dot(w[1], w[3]) = 0 /\ Dot(w[2], w[3]) = 0}}

Diag(a, b, c) == <<<<a, 0, 0>>, <<0, b, 0>>, <<0, 0, c>>>>

\* C = np.dot((B-np.mean(B, axis=0)).T, (A-np.mean(A, axis=0))), times n^2: the
\* centred points are kept times n.
CrossCov(A, B) ==
    With([i \in 1..Len(A) |-> VSub(VScale(Len(A), A[i]), VSum(A))], LAMBDA ac :
        With([i \in 1..Len(B) |-> VSub(VScale(Len(B), B[i]), VSum(B))], LAMBDA bc :
            [r \in 1..3 |-> [c \in 1..3 |->
                Sum(1..Len(A), [i \in 1..Len(A) |-> bc[i][r] * ac[i][c]], 0)]]))

\* U, diag(S), Vt is a singular value decomposition of C: U and Vt orthogonal,
\* S non-negative in descending order.
IsSVD(C, U, Vt) ==
    LET S == MatMul(Transpose(U), MatMul(C, Transpose(Vt)))
    IN  /\ \A r, c \in 1..3 : r # c => S[r][c] = 0
        /\ S[1][1] >= S[2][2] /\ S[2][2] >= S[3][3] /\ S[3][3] >= 0

\* What np.linalg.svd(C) may return, among the matrices of AxisOrthogonals: with
\* a zero or a repeated singular value the factors are not determined by C.
SVDs(C) ==
    With(C, LAMBDA c :
        {uv \in AxisOrthogonals \X AxisOrthogonals : IsSVD(c, uv[1], uv[2])})

\* A faulty variant of RBTRotation: the product of the factors, uncorrected.
RBTRotation_Naive(U, Vt) == MatMul(U, Vt)

\* R = np.dot(U, np.dot(np.diag([1, 1, np.linalg.det(np.dot(U, Vt))]), Vt))
RBTRotation(U, Vt) == MatMul(U, MatMul(Diag(1, 1, Det(MatMul(U, Vt))), Vt))

\* A faulty variant of ClusterSeen: only the two bracket frames are looked at.
ClusterSeen_EndsOnly(cmask, fr0, fr1) == cmask[fr0] /\ cmask[fr1]

\* not np.any(~cl_mkr_valid_mask[fr0:fr1+1])
ClusterSeen(cmask, fr0, fr1) == \A g \in fr0..fr1 : cmask[g]

RECURSIVE RigidFillLoop(_, _, _, _, _, _, _)
RigidFillLoop(frs, w, aux, cl, cmask, all_frs, nd) ==
    IF frs = {} THEN w
    ELSE
      LET fr == SetMin(frs)
          rest == frs \ {fr}
          ix == BracketIdx(all_frs, fr)
      IN  IF ~IndexOk(all_frs, ix[1]) \/ ~IndexOk(all_frs, ix[2])
          THEN [w EXCEPT !.exc = "IndexError"]
          ELSE
            LET fr0 == NpIndex(all_frs, ix[1])
                fr1 == NpIndex(all_frs, ix[2])
            IN  IF OutsideBracket(fr, fr0, fr1) THEN RigidFillLoop(rest, w, aux, cl, cmask, all_frs, nd)
                ELSE IF ~cmask[fr0] \/ ~cmask[fr1] THEN RigidFillLoop(rest, w, aux, cl, cmask, all_frs, nd)
                ELSE IF ~ClusterSeen(cmask, fr0, fr1) THEN RigidFillLoop(rest, w, aux, cl, cmask, all_frs, nd)
                ELSE
                  LET at(f) == [i \in 1..Len(cl) |-> aux[cl[i]].coords[f]]
                      from0 == RBTApply(at(fr0), at(fr), w.coords[fr0], nd.tie)
                      from1 == RBTApply(at(fr1), at(fr), w.coords[fr1], nd.tie)
                  IN  With([w EXCEPT !.coords[fr] = Lerp(from0, from1, fr0, fr1, fr),
                                     !.resid[fr] = 0,
                                     !.upd = TRUE],
                           LAMBDA w2 : RigidFillLoop(rest, w2, aux, cl, cmask, all_frs, nd))

fill_marker_gap_rigidbody(tgt, aux, cl, nd) ==
    LET tmask == ValidMask(tgt.resid)
        n_valid == CountValid(tgt.resid)
        cmask == ClusterMask(aux, cl)
        all_frs == {f \in Frames : cmask[f] /\ tmask[f]}
        only_frs == {f \in Frames : cmask[f] /\ ~tmask[f]}
    IN  IF NothingToDo(tgt) THEN Returned(FALSE, n_valid, tgt.coords, tgt.resid)
        ELSE IF ClusterUseless(tgt, aux, cl) THEN Returned(FALSE, n_valid, tgt.coords, tgt.resid)
        ELSE With(Work(tgt), LAMBDA w :
                 Finish(RigidFillLoop(only_frs, w, aux, cl, cmask, all_frs, nd), n_valid))

---------------------------------------------------------------------------
(* One invocation, step by step.                                           *)

Strategies == {"relative", "rigidbody", "gap_rigidbody", "gap_pattern", "gap_interp"}

ClusterStrategies == {"relative", "rigidbody", "gap_rigidbody"}

\* The strategy named by the arguments, on the data read.
Strategy(a, tgt, aux, nd) ==
    CASE a.strategy = "relative" -> recover_marker_relative(tgt, aux, a.cl, nd)
      [] a.strategy = "rigidbody" -> recover_marker_rigidbody(tgt, aux, a.cl, nd)
      [] a.strategy = "gap_rigidbody" -> fill_marker_gap_rigidbody(tgt, aux, a.cl, nd)
      [] a.strategy = "gap_pattern" -> fill_marker_gap_pattern(tgt, aux[a.dnr])
      [] a.strategy = "gap_interp" ->
            fill_marker_gap_interp(tgt, a.k, a.search_span_offset, a.min_needed_frs)

\* The markers an invocation reads besides its target.
ReadsOf(a) ==
    CASE a.strategy \in ClusterStrategies -> {a.cl[i] : i \in 1..Len(a.cl)}
      [] a.strategy = "gap_pattern" -> {a.dnr}
      [] a.strategy = "gap_interp" -> {}

NoArgs == [strategy |-> "none", tgt |-> "none", cl |-> <<>>, dnr |-> "none",
           k |-> 0, search_span_offset |-> 0, min_needed_frs |-> 0,
           mkr_name |-> "none", ndim |-> 0]

NoLoc == [kind |-> "none", updated |-> FALSE, count |-> 0, write |-> FALSE,
          coords |-> <<>>, resid |-> <<>>, exc |-> "none"]

\* [False, True][ret]
PyBool(b) == IF b THEN "True" ELSE "False"

\* What the write-back has answered so far: the last COM call, update_marker_pos
\* and update_marker_residual ("none" until they return).
NoRet == [com |-> TRUE, pos |-> "none", res |-> "none"]

\* Another caller is in the middle of writing marker m back.
Writing(q, m) == pc[q] \in {"wy", "wz", "w1", "wr", "r1"} /\ args[q].tgt = m

\* A read of marker m by caller p does not race with the write-back of m.
MayRead(p, m) == \A q \in Procs \ {p} : ~Writing(q, m)

\* The strategy is entered: the target is read, and the strategy returns at once
\* when the target has no valid frame or no invalid frame.
Enter(p, a) ==
    /\ MayRead(p, a.tgt)
    /\ \E tgt \in {get_marker_data(store, mkr_scale, a.tgt)} :
           /\ args' = [args EXCEPT ![p] = a]
           /\ store0' = [store0 EXCEPT ![p] = store]
           /\ IF NothingToDo(tgt)
              THEN /\ loc' = [loc EXCEPT ![p] =
                                 Returned(FALSE, CountValid(tgt.resid), tgt.coords, tgt.resid)]
                   /\ pc' = [pc EXCEPT ![p] = "done"]
              ELSE /\ loc' = [loc EXCEPT ![p] =
                                 [NoLoc EXCEPT !.kind = "running",
                                               !.coords = tgt.coords, !.resid = tgt.resid]]
                   /\ pc' = [pc EXCEPT ![p] = "called"]
    /\ UNCHANGED <<store, mkr_scale, ret>>

\* A caller invokes a strategy.
Call(p, a) == pc[p] = "idle" /\ Enter(p, a)

\* The strategy that has just returned to caller p is invoked again with the
\* same arguments; the second invocation runs as q.
Repeat(p, q) ==
    /\ pc[p] = "done" /\ loc[p].kind = "return"
    /\ pc[q] = "off"
    /\ Enter(q, args[p])

\* The cluster or donor markers are read and the frames are repaired in the
\* private copy; the strategy returns, raises, or goes on to write back.
Compute(p, nd) ==
    /\ pc[p] = "called"
    /\ \A m \in ReadsOf(args[p]) : MayRead(p, m)
    /\ \E tgt \in {[coords |-> loc[p].coords, resid |-> loc[p].resid]} :
       \E aux \in {[m \in DOMAIN store |-> get_marker_data(store, mkr_scale, m)]} :
       \E out \in {Strategy(args[p], tgt, aux, nd)} :
           /\ loc' = [loc EXCEPT ![p] = out]
           /\ pc' = [pc EXCEPT ![p] = IF out.write THEN "wx" ELSE "done"]
    /\ UNCHANGED <<store, mkr_scale, args, ret, store0>>

AxisPc(i) == <<"wx", "wy", "wz">>[i]

\* A faulty variant of AfterAxis: the z array is never written.
AfterAxis_SkipZ(i) == <<"wy", "w1", "w1">>[i]

AfterAxis(i) == <<"wy", "wz", "w1">>[i]

\* A faulty variant of WriteAxis: the call stores the caller's snapshot of the
\* file with the target's axis replaced, undoing what others wrote since.
WriteAxis_Snapshot(p, i, ok) ==
    /\ pc[p] = AxisPc(i)
    /\ store' = IF ok
                THEN [m \in Markers |->
                        IF m = args[p].tgt
                        THEN [store[m] EXCEPT !.pos = [f \in Frames |->
                                [@[f] EXCEPT ![i] = Unscaled(loc[p].coords[f][i], mkr_scale)]]]
                        ELSE store0[p][m]]
                ELSE store
    /\ ret' = [ret EXCEPT ![p].com = ok]
    /\ pc' = [pc EXCEPT ![p] = AfterAxis(i)]
    /\ UNCHANGED <<mkr_scale, args, loc, store0>>

\* update_marker_pos, first loop: itf.SetPointDataEx(mkr_idx, i, start_fr, variant)
\* writes one coordinate of every frame, and answers whether it did.
WriteAxis(p, i, ok) ==
    /\ pc[p] = AxisPc(i)
    /\ store' = IF ok
                THEN [store EXCEPT ![args[p].tgt].pos =
                        [f \in Frames |-> [@[f] EXCEPT ![i] = Unscaled(loc[p].coords[f][i], mkr_scale)]]]
                ELSE store
    /\ ret' = [ret EXCEPT ![p].com = ok]
    /\ pc' = [pc EXCEPT ![p] = AfterAxis(i)]
    /\ UNCHANGED <<mkr_scale, args, loc, store0>>

\* update_marker_pos, second loop: itf.SetPointData writes the constant 1 at every
\* coordinate whose unscaled value is 1; then the function returns the answer of
\* the last COM call it made.
FixOnesPos(p, ok) ==
    /\ pc[p] = "w1"
    /\ LET ones == {<<f, i>> \in Frames \X Axes : Unscaled(loc[p].coords[f][i], mkr_scale) = 1}
           last == IF ones = {} THEN ret[p].com ELSE ok
       IN  /\ store' = IF ok
                       THEN [store EXCEPT ![args[p].tgt].pos =
                               [f \in Frames |-> [i \in Axes |->
                                   IF <<f, i>> \in ones THEN 1 ELSE @[f][i]]]]
                       ELSE store
           /\ ret' = [ret EXCEPT ![p].com = last, ![p].pos = PyBool(last)]
    /\ pc' = [pc EXCEPT ![p] = IF args[p].strategy = "update_marker_pos" THEN "done" ELSE "wr"]
    /\ UNCHANGED <<mkr_scale, args, loc, store0>>

\* A faulty variant of WriteResid: the residuals are written to every marker.
WriteResid_EveryMarker(p, ok) ==
    /\ pc[p] = "wr"
    /\ store' = IF ok
                THEN [m \in DOMAIN store |-> [store[m] EXCEPT !.res = loc[p].resid]]
                ELSE store
    /\ ret' = [ret EXCEPT ![p].com = ok]
    /\ pc' = [pc EXCEPT ![p] = "r1"]
    /\ UNCHANGED <<mkr_scale, args, loc, store0>>

\* update_marker_residual: itf.SetPointDataEx(mkr_idx, 3, start_fr, variant) writes
\* the residual of every frame.  The strategy calls it whatever update_marker_pos
\* returned.
WriteResid(p, ok) ==
    /\ pc[p] = "wr"
    /\ store' = IF ok
                THEN [store EXCEPT ![args[p].tgt].res = loc[p].resid]
                ELSE store
    /\ ret' = [ret EXCEPT ![p].com = ok]
    /\ pc' = [pc EXCEPT ![p] = "r1"]
    /\ UNCHANGED <<mkr_scale, args, loc, store0>>

\* update_marker_residual, the loop that writes the constant 1 at every residual
\* equal to 1, and its return; the strategy then returns (True, count).
FixOnesResid(p, ok) ==
    /\ pc[p] = "r1"
    /\ LET ones == {f \in Frames : loc[p].resid[f] = 1}
           last == IF ones = {} THEN ret[p].com ELSE ok
       IN  /\ store' = IF ok
                       THEN [store EXCEPT ![args[p].tgt].res =
                               [f \in Frames |-> IF f \in ones THEN 1 ELSE @[f]]]
                       ELSE store
           /\ ret' = [ret EXCEPT ![p].com = last, ![p].res = PyBool(last)]
    /\ pc' = [pc EXCEPT ![p] = "done"]
    /\ UNCHANGED <<mkr_scale, args, loc, store0>>

---------------------------------------------------------------------------
(* update_marker_pos and update_marker_residual called by the user.        *)

\* POINT:LABELS of the file.
Labels == <<"T", "A", "B", "C">>

\* A faulty variant of get_marker_index: mkr_idx starts at 0, so a name that is
\* not found gives the first marker.
get_marker_index_First(mkr_name) ==
    IF \E i \in 1..Len(Labels) : Labels[i] = mkr_name
    THEN (CHOOSE i \in 1..Len(Labels) : Labels[i] = mkr_name) - 1
    ELSE 0

\* The index of the name in POINT:LABELS, -1 when it is not there.
get_marker_index(mkr_name) ==
    IF \E i \in 1..Len(Labels) : Labels[i] = mkr_name
    THEN (CHOOSE i \in 1..Len(Labels) : Labels[i] = mkr_name) - 1
    ELSE -1

\* arr.shape[0] of an array given as [ndim, data], data a function on 0..n-1.
Shape0(arr) == Cardinality(DOMAIN arr.data)

\* The first lines of both functions: the marker is looked up and the shape of
\* the array compared with the number of frames.
Incompatible(mkr_idx, arr, ndim) ==
    mkr_idx = -1 \/ arr.ndim # ndim \/ Shape0(arr) # NFrames

UpdateArgs(fn, mkr_name, mkr_idx, arr) ==
    [NoArgs EXCEPT !.strategy = fn, !.mkr_name = mkr_name, !.ndim = arr.ndim,
                   !.tgt = IF mkr_idx = -1 THEN "none" ELSE Labels[mkr_idx + 1]]

\* update_marker_pos(itf, mkr_name, mkr_coords) up to its first COM write.
update_marker_pos(p, mkr_name, mkr_coords) ==
    /\ pc[p] = "idle"
    /\ \E mkr_idx \in {get_marker_index(mkr_name)} :
          /\ args' = [args EXCEPT ![p] = UpdateArgs("update_marker_pos", mkr_name, mkr_idx, mkr_coords)]
          /\ IF Incompatible(mkr_idx, mkr_coords, 2)
             THEN /\ pc' = [pc EXCEPT ![p] = "done"]
                  /\ ret' = [ret EXCEPT ![p].pos = PyBool(FALSE)]
             ELSE /\ pc' = [pc EXCEPT ![p] = "wx"]
                  /\ ret' = ret
    /\ loc' = [loc EXCEPT ![p] = [NoLoc EXCEPT !.kind = "running", !.coords = mkr_coords.data]]
    /\ store0' = [store0 EXCEPT ![p] = store]
    /\ UNCHANGED <<store, mkr_scale>>

\* update_marker_residual(itf, mkr_name, mkr_resid) up to its first COM write.
update_marker_residual(p, mkr_name, mkr_resid) ==
    /\ pc[p] = "idle"
    /\ \E mkr_idx \in {get_marker_index(mkr_name)} :
          /\ args' = [args EXCEPT ![p] = UpdateArgs("update_marker_residual", mkr_name, mkr_idx, mkr_resid)]
          /\ IF Incompatible(mkr_idx, mkr_resid, 1)
             THEN /\ pc' = [pc EXCEPT ![p] = "done"]
                  /\ ret' = [ret EXCEPT ![p].res = PyBool(FALSE)]
             ELSE /\ pc' = [pc EXCEPT ![p] = "wr"]
                  /\ ret' = ret
    /\ loc' = [loc EXCEPT ![p] = [NoLoc EXCEPT !.kind = "running", !.resid = mkr_resid.data]]
    /\ store0' = [store0 EXCEPT ![p] = store]
    /\ UNCHANGED <<store, mkr_scale>>

---------------------------------------------------------------------------
(* The files a run starts from, and the invocations it makes.              *)

RotZ == <<<<0, -1, 0>>, <<1, 0, 0>>, <<0, 0, 1>>>>

Ident == <<<<1, 0, 0>>, <<0, 1, 0>>, <<0, 0, 1>>>>

\* The body the markers sit on: it translates, and in motion 1 it has turned a
\* quarter about z from the third frame on.
BodyRot(motion, f) == IF motion = 1 /\ f >= 2 THEN RotZ ELSE Ident

BodyOrigin(f) == <<f, 2 * f, 0>>

BodyOffset(m) ==
    CASE m = "A" -> <<0, 0, 0>>
      [] m = "B" -> <<3, 0, 0>>
      [] m = "C" -> <<0, 4, 0>>
      [] m = "T" -> <<1, 1, 1>>

\* A marker's stored trajectory: on the body where it was seen, zero coordinates
\* and residual -1 where it was blocked.
Trajectory(m, motion, mask, valid_res) ==
    [pos |-> [f \in Frames |->
                IF mask[f] THEN VAdd(BodyOrigin(f), MatVec(BodyRot(motion, f), BodyOffset(m)))
                ELSE Zero3],
     res |-> [f \in Frames |-> IF mask[f] THEN valid_res ELSE -1]]

Masks == [Frames -> BOOLEAN]

AllValid == [f \in Frames |-> TRUE]

\* The validity of A: seen throughout, or blocked on one run of frames.
MasksA == {AllValid} \cup
          {[f \in Frames |-> f < g[1] \/ f > g[2]] : g \in {h \in Frames \X Frames : h[1] <= h[2]}}

\* The validity of B: seen throughout, or blocked at the middle frame.
MasksB == {AllValid, [f \in Frames |-> f # 2]}

\* The recordings: a float file of the body translating, and an integer file
\* (POINT:SCALE 2) of the body translating and turning.
Recordings == {[scale |-> -1, motion |-> 0], [scale |-> 2, motion |-> 1]}

Scales == {r.scale : r \in Recordings}

FilesOf(motion) ==
    {[T |-> Trajectory("T", motion, mt, 1),
      A |-> Trajectory("A", motion, ma, 0),
      B |-> Trajectory("B", motion, mb, 1),
      C |-> Trajectory("C", motion, AllValid, 0)] :
        mt \in Masks, ma \in MasksA, mb \in MasksB}

ClusterLists == {<<"A", "B", "C">>, <<"C", "B", "A">>, <<"A", "B">>}

ClusterArgs(tgts) ==
    {[NoArgs EXCEPT !.strategy = s, !.tgt = t, !.cl = cl] :
        s \in ClusterStrategies, t \in tgts, cl \in ClusterLists}

PatternArgs(tgts, dnrs) ==
    {[NoArgs EXCEPT !.strategy = "gap_pattern", !.tgt = t, !.dnr = d] :
        t \in tgts, d \in dnrs}

InterpArgs(tgts) ==
    {[NoArgs EXCEPT !.strategy = "gap_interp", !.tgt = t, !.k = k,
                    !.search_span_offset = o, !.min_needed_frs = n] :
        t \in tgts, k \in {1, 3}, o \in {0, 1}, n \in {2, 4}}

\* The spline settings a run of one caller uses: <<k, search_span_offset, min_needed_frs>>.
InterpSettings == {<<1, 0, 2>>, <<1, 1, 4>>, <<3, 0, 2>>, <<3, 1, 4>>}

\* What a run of one caller may invoke: every strategy on the target T.
ArgsOne ==
    ClusterArgs({"T"}) \cup PatternArgs({"T"}, {"A"}) \cup
    {a \in InterpArgs({"T"}) : <<a.k, a.search_span_offset, a.min_needed_frs>> \in InterpSettings}

\* What is left in a buffer np.divide does not fill, and which of several equally
\* good rigid fits the SVD returns.
Undetermined == {[junk |-> Zero3, tie |-> 0], [junk |-> <<1, 0, 0>>, tie |-> 1]}

TypeOK ==
    /\ DOMAIN store = Markers
    /\ \A m \in Markers : \A f \in Frames :
          /\ store[m].res[f] \in Int
          /\ \A i \in Axes : store[m].pos[f][i] \in Int
    /\ mkr_scale \in Scales
    /\ pc \in [Procs -> {"off", "idle", "called", "wx", "wy", "wz", "w1", "wr", "r1", "done"}]

Init ==
    /\ \E r \in Recordings : store \in FilesOf(r.motion) /\ mkr_scale = r.scale
    /\ pc = [p \in Procs |-> IF p = 1 THEN "idle" ELSE "off"]
    /\ args = [p \in Procs |-> NoArgs]
    /\ loc = [p \in Procs |-> NoLoc]
    /\ ret = [p \in Procs |-> NoRet]
    /\ store0 = [p \in Procs |-> store]

\* The steps of the write-back, each COM call accepted (ok) or rejected.
WriteBack(p, ok) ==
    \/ \E i \in Axes : WriteAxis(p, i, ok)
    \/ FixOnesPos(p, ok)
    \/ WriteResid(p, ok)
    \/ FixOnesResid(p, ok)

Next ==
    \E p \in Procs :
        \/ \E a \in ArgsOne : Call(p, a)
        \/ \E nd \in Undetermined : Compute(p, nd)
        \/ WriteBack(p, TRUE)

\* One caller, against a store that accepts every write.
Spec == Init /\ [][Next]_vars

\* The files of the runs in which the store may reject a write: the cluster seen
\* throughout, the target blocked at most on the second and third frames.
InitFault ==
    /\ Init
    /\ \A m \in {"A", "B"} : \A f \in Frames : store[m].res[f] # -1
    /\ \A f \in Frames \ {1, 2} : store["T"].res[f] # -1

NextFault ==
    \E p \in Procs :
        \/ \E a \in ArgsOne : Call(p, a)
        \/ \E nd \in Undetermined : Compute(p, nd)
        \/ \E ok \in BOOLEAN : WriteBack(p, ok)

\* What two concurrent callers invoke: the first on the target T, the second on
\* the target A, which the first may read as donor or cluster marker, as the
\* second may read T.
ArgsPar(p) ==
    IF p = 1
    THEN PatternArgs({"T"}, {"A", "C"}) \cup
         {a \in ClusterArgs({"T"}) : a.strategy = "relative" /\ a.cl = <<"A", "B", "C">>}
    ELSE PatternArgs({"A"}, {"C", "T"}) \cup
         {a \in InterpArgs({"A"}) : a.k = 1 /\ a.search_span_offset = 0 /\ a.min_needed_frs = 2}

Blocked(t) == {f \in Frames : t.res[f] = -1}

\* The files of the runs of two callers: both targets with a gap.
InitPar ==
    /\ \E r \in Recordings :
          /\ store \in {s \in FilesOf(r.motion) :
                          /\ Blocked(s["B"]) = {}
                          /\ Blocked(s["T"]) \in {{1}, {2, 3}}
                          /\ Blocked(s["A"]) \in {{1}, {3}}}
          /\ mkr_scale = r.scale
    /\ pc = [p \in Procs |-> "idle"]
    /\ args = [p \in Procs |-> NoArgs]
    /\ loc = [p \in Procs |-> NoLoc]
    /\ ret = [p \in Procs |-> NoRet]
    /\ store0 = [p \in Procs |-> store]

NextPar ==
    \E p \in Procs :
        \/ \E a \in ArgsPar(p) : Call(p, a)
        \/ \E nd \in Undetermined : Compute(p, nd)
        \/ WriteBack(p, TRUE)

\* Two callers at once; a read of a marker waits for its write-back to end.
SpecPar == InitPar /\ [][NextPar]_vars

\* The arrays a user passes: one frame short, of the file's length, one frame
\* long, and of the wrong dimension.
Lengths == {NFrames - 1, NFrames, NFrames + 1}

CoordArrays ==
    {[ndim |-> 2, data |-> [f \in 0..(n - 1) |-> <<f + 1, 1, 2 * f>>]] : n \in Lengths}
    \cup {[ndim |-> 1, data |-> [f \in Frames |-> f + 1]]}

ResidArrays ==
    {[ndim |-> 1, data |-> [f \in 0..(n - 1) |-> IF f = 1 THEN 1 ELSE 0]] : n \in Lengths}
    \cup {[ndim |-> 2, data |-> [f \in Frames |-> <<0>>]]}

\* The names a user passes: markers of the file and a name that is not in it.
Names == {"T", "B", "X"}

NextUpd ==
    \E p \in Procs :
        \/ \E n \in Names, arr \in CoordArrays : update_marker_pos(p, n, arr)
        \/ \E n \in Names, arr \in ResidArrays : update_marker_residual(p, n, arr)
        \/ WriteBack(p, TRUE)

\* One user calling the two update functions on a file.
SpecUpd == InitFault /\ [][NextUpd]_vars

\* The files of the spline fills: the cluster seen throughout, the target with
\* any validity.
InitInterp ==
    /\ Init
    /\ \A m \in {"A", "B"} : Blocked(store[m]) = {}

NextInterp ==
    \E p \in Procs :
        \/ \E a \in InterpArgs({"T"}) : Call(p, a)
        \/ \E nd \in Undetermined : Compute(p, nd)
        \/ WriteBack(p, TRUE)

\* One caller of the spline gap fill, with every setting of the window.
SpecInterp == InitInterp /\ [][NextInterp]_vars

\* A float file in which the target T rides at the constant offset c from the
\* donor A, which moves along x between a few stations; T is blocked on one
\* run of frames or on none.
Stations == {57, 60, 64}

OffsetFiles ==
    {[T |-> [pos |-> [f \in Frames |-> IF mt[f] THEN VAdd(<<x[f], f, 0>>, c) ELSE Zero3],
             res |-> [f \in Frames |-> IF mt[f] THEN 0 ELSE -1]],
      A |-> [pos |-> [f \in Frames |-> <<x[f], f, 0>>],
             res |-> [f \in Frames |-> 0]],
      B |-> Trajectory("B", 0, AllValid, 0),
      C |-> Trajectory("C", 0, AllValid, 0)] :
        mt \in MasksA, x \in [Frames -> Stations], c \in {<<4, 0, 0>>}}

\* Every coordinate the file holds is a float.
Representable(st) ==
    \A m \in Markers : \A f \in Frames : FlV(st[m].pos[f]) = st[m].pos[f]

InitPat ==
    /\ store \in {st \in OffsetFiles : Representable(st)}
    /\ mkr_scale = -1
    /\ pc = [p \in Procs |-> IF p = 1 THEN "idle" ELSE "off"]
    /\ args = [p \in Procs |-> NoArgs]
    /\ loc = [p \in Procs |-> NoLoc]
    /\ ret = [p \in Procs |-> NoRet]
    /\ store0 = [p \in Procs |-> store]

NextPat ==
    \E p \in Procs :
        \/ \E a \in PatternArgs({"T"}, {"A"}) : Call(p, a)
        \/ \E nd \in Undetermined : Compute(p, nd)
        \/ WriteBack(p, TRUE)

\* One caller of the pattern gap fill on a target at a constant offset from
\* its donor.
SpecPat == InitPat /\ [][NextPat]_vars

\* A cluster of four on the body, C and D mirror images in the plane the body
\* moves in, and a target T in that plane that drifts along the body.
WideOffset(m, f) ==
    CASE m = "A" -> <<0, 0, 0>>
      [] m = "B" -> <<3, 0, 0>>
      [] m = "C" -> <<0, 4, 1>>
      [] m = "D" -> <<0, 4, -1>>
      [] m = "T" -> <<1 + 3 * f, 1, 0>>

WideTrajectory(m, motion, mask, valid_res) ==
    [pos |-> [f \in Frames |->
                IF mask[f] THEN VAdd(BodyOrigin(f), MatVec(BodyRot(motion, f), WideOffset(m, f)))
                ELSE Zero3],
     res |-> [f \in Frames |-> IF mask[f] THEN valid_res ELSE -1]]

\* Seen throughout, or blocked at the one frame g.
MasksAt(G) == {AllValid} \cup {[f \in Frames |-> f # g] : g \in G}

WideFiles(motion) ==
    {[T |-> WideTrajectory("T", motion, mt, 1),
      A |-> WideTrajectory("A", motion, AllValid, 0),
      B |-> WideTrajectory("B", motion, AllValid, 1),
      C |-> WideTrajectory("C", motion, mc, 0),
      D |-> WideTrajectory("D", motion, md, 0)] :
        mt \in Masks, mc \in MasksAt({1}), md \in MasksAt({1, 2})}

WideLists == {<<"A", "B", "C", "D">>, <<"B", "A", "D", "C">>, <<"A", "B", "C">>}

RecArgs ==
    {[NoArgs EXCEPT !.strategy = s, !.tgt = "T", !.cl = cl] :
        s \in {"relative", "rigidbody"}, cl \in WideLists}

InitRec ==
    /\ \E r \in Recordings : store \in WideFiles(r.motion) /\ mkr_scale = r.scale
    /\ pc = [p \in Procs |-> IF p = 1 THEN "idle" ELSE "off"]
    /\ args = [p \in Procs |-> NoArgs]
    /\ loc = [p \in Procs |-> NoLoc]
    /\ ret = [p \in Procs |-> NoRet]
    /\ store0 = [p \in Procs |-> store]

NextRec ==
    \E p \in Procs :
        \/ \E a \in RecArgs : Call(p, a)
        \/ \E nd \in Undetermined : Compute(p, nd)
        \/ WriteBack(p, TRUE)

\* One caller of the two recoveries, with clusters of three and of four.
SpecRec == InitRec /\ [][NextRec]_vars

\* A cluster that is not rigid: at the frame g the marker C, valid, lies on the
\* line through A and B.
FoldedC(motion, g) ==
    [pos |-> [f \in Frames |->
                VAdd(BodyOrigin(f),
                     MatVec(BodyRot(motion, f), IF f = g THEN <<6, 0, 0>> ELSE WideOffset("C", f)))],
     res |-> [f \in Frames |-> 0]]

FoldedFiles(motion) ==
    {[T |-> WideTrajectory("T", motion, mt, 1),
      A |-> WideTrajectory("A", motion, AllValid, 0),
      B |-> WideTrajectory("B", motion, AllValid, 1),
      C |-> FoldedC(motion, g)] :
        mt \in Masks, g \in {0, 2, NFrames - 1}}

DegArgs ==
    {[NoArgs EXCEPT !.strategy = s, !.tgt = "T", !.cl = <<"A", "B", "C">>] :
        s \in {"relative", "rigidbody"}}

InitDeg ==
    /\ \E r \in Recordings : store \in FoldedFiles(r.motion) /\ mkr_scale = r.scale
    /\ pc = [p \in Procs |-> IF p = 1 THEN "idle" ELSE "off"]
    /\ args = [p \in Procs |-> NoArgs]
    /\ loc = [p \in Procs |-> NoLoc]
    /\ ret = [p \in Procs |-> NoRet]
    /\ store0 = [p \in Procs |-> store]

NextDeg ==
    \E p \in Procs :
        \/ \E a \in DegArgs : Call(p, a)
        \/ \E nd \in Undetermined : Compute(p, nd)
        \/ WriteBack(p, TRUE)

\* One caller of the two recoveries on a cluster that is collinear at one frame.
SpecDeg == InitDeg /\ [][NextDeg]_vars

GapArgs ==
    {a \in ClusterArgs({"T"}) : a.strategy = "gap_rigidbody"} \cup PatternArgs({"T"}, {"A"})

NextGap ==
    \E p \in Procs :
        \/ \E a \in GapArgs : Call(p, a)
        \/ \E nd \in Undetermined : Compute(p, nd)
        \/ WriteBack(p, TRUE)

\* One caller of the rigid-body gap fill or the pattern gap fill.
SpecGap == Init /\ [][NextGap]_vars

\* A target that does not move evenly along the body: what two anchors give
\* differs, and differs from what a frame between them gives.
CurvedT(motion, mask) ==
    [pos |-> [f \in Frames |->
                IF mask[f]
                THEN VAdd(BodyOrigin(f),
                          MatVec(BodyRot(motion, f), <<1 + f * f + FloorDiv(f, 4), 1, 0>>))
                ELSE Zero3],
     res |-> [f \in Frames |-> IF mask[f] THEN 1 ELSE -1]]

CurvedFiles(motion) ==
    {[T |-> CurvedT(motion, mt),
      A |-> Trajectory("A", motion, AllValid, 0),
      B |-> Trajectory("B", motion, AllValid, 1),
      C |-> Trajectory("C", motion, AllValid, 0)] : mt \in Masks}

OrderArgs ==
    {a \in ClusterArgs({"T"}) : a.cl = <<"A", "B", "C">>} \cup PatternArgs({"T"}, {"A"})
    \cup InterpArgs({"T"})

InitOrder ==
    /\ \E r \in Recordings : store \in CurvedFiles(r.motion) /\ mkr_scale = r.scale
    /\ pc = [p \in Procs |-> IF p = 1 THEN "idle" ELSE "off"]
    /\ args = [p \in Procs |-> NoArgs]
    /\ loc = [p \in Procs |-> NoLoc]
    /\ ret = [p \in Procs |-> NoRet]
    /\ store0 = [p \in Procs |-> store]

NextOrder ==
    \E p \in Procs :
        \/ \E a \in OrderArgs : Call(p, a)
        \/ \E nd \in Undetermined : Compute(p, nd)
        \/ WriteBack(p, TRUE)

\* One caller of any strategy on a target that moves unevenly.
SpecOrder == InitOrder /\ [][NextOrder]_vars

TwiceArgs ==
    {a \in ClusterArgs({"T"}) : a.cl = <<"A", "B", "C">>} \cup PatternArgs({"T"}, {"A"})

InitTwice == Init /\ Blocked(store["B"]) = {}

NextTwice ==
    \/ \E p \in Procs :
          \/ \E a \in TwiceArgs : Call(p, a)
          \/ \E nd \in Undetermined : Compute(p, nd)
          \/ WriteBack(p, TRUE)
    \/ Repeat(1, 2)

\* One caller that invokes a strategy and, when it has returned, invokes it
\* again with the same arguments.
SpecTwice == InitTwice /\ [][NextTwice]_vars

\* The length of the longer recording the spline gap fill is followed on.
LongFrames == 6

LongArgs ==
    {[NoArgs EXCEPT !.strategy = "gap_interp", !.tgt = "T", !.k = k,
                    !.search_span_offset = o, !.min_needed_frs = n] :
        k \in {1, 3}, o \in {0, 1}, n \in {2, 3, 4}}

\* Caller p invokes the spline gap fill on a target of LongFrames frames of
\* validity tmask, with every write accepted.
FillLong(p, tmask, a) ==
    /\ pc[p] = "idle"
    /\ \E r \in {InterpValid(tmask, LongFrames, a.k, a.search_span_offset, a.min_needed_frs)} :
          loc' = [loc EXCEPT ![p] = [kind |-> IF r.exc = "none" THEN "return" ELSE "raise",
                                     before |-> tmask, after |-> r.valid,
                                     updated |-> r.upd, exc |-> r.exc]]
    /\ args' = [args EXCEPT ![p] = a]
    /\ pc' = [pc EXCEPT ![p] = "done"]
    /\ UNCHANGED <<store, mkr_scale, ret, store0>>

\* The spline gap fill is invoked again with the same arguments on the target
\* as the first invocation left it; the second invocation is q's.
FillLongAgain(p, q) ==
    /\ pc[p] = "done" /\ args[p].strategy = "gap_interp"
    /\ pc[q] = "off"
    /\ \E a \in {args[p]} :
       \E r \in {InterpValid(loc[p].after, LongFrames, a.k, a.search_span_offset, a.min_needed_frs)} :
          /\ loc' = [loc EXCEPT ![q] = [kind |-> IF r.exc = "none" THEN "return" ELSE "raise",
                                        before |-> loc[p].after, after |-> r.valid,
                                        updated |-> r.upd, exc |-> r.exc]]
          /\ args' = [args EXCEPT ![q] = a]
    /\ pc' = [pc EXCEPT ![q] = "done"]
    /\ UNCHANGED <<store, mkr_scale, ret, store0>>

InitLong ==
    /\ Init
    /\ \A m \in Markers : Blocked(store[m]) = {}

NextLong ==
    \/ \E tmask \in [0..(LongFrames - 1) -> BOOLEAN], a \in LongArgs : FillLong(1, tmask, a)
    \/ FillLongAgain(1, 2)

\* The spline gap fill invoked twice in succession on a recording of LongFrames
\* frames.
SpecLong == InitLong /\ [][NextLong]_vars

FillArgs ==
    GapArgs \cup
    {a \in InterpArgs({"T"}) : <<a.k, a.search_span_offset, a.min_needed_frs>> \in InterpSettings}

NextFills ==
    \E p \in Procs :
        \/ \E a \in FillArgs : Call(p, a)
        \/ \E nd \in Undetermined : Compute(p, nd)
        \/ WriteBack(p, TRUE)

\* One caller of any of the three gap fills.
SpecFills == Init /\ [][NextFills]_vars

\* RBT(A, B) called on two point sets: the rotation it returns, with the
\* factors the SVD gave.
RBT(p, A, B) ==
    /\ pc[p] = "idle"
    /\ \E uv \in SVDs(CrossCov(A, B)) :
          loc' = [loc EXCEPT ![p] = [kind |-> "rbt", A |-> A, B |-> B,
                                     U |-> uv[1], Vt |-> uv[2],
                                     R |-> RBTRotation(uv[1], uv[2])]]
    /\ args' = [args EXCEPT ![p] = [NoArgs EXCEPT !.strategy = "RBT"]]
    /\ pc' = [pc EXCEPT ![p] = "done"]
    /\ UNCHANGED <<store, mkr_scale, ret, store0>>

\* The point sets RBT is given: a planar cross and a cross in space, and as B
\* the image of A under a rotation or a reflection and a shift.
Crosses ==
    {<<<<3, 0, 0>>, <<-3, 0, 0>>, <<0, 2, 0>>, <<0, -2, 0>>>>,
     <<<<3, 0, 0>>, <<-3, 0, 0>>, <<0, 2, 0>>, <<0, -2, 0>>, <<0, 0, 1>>, <<0, 0, -1>>>>}

Moved(A, Q, t) == [i \in 1..Len(A) |-> VAdd(MatVec(Q, A[i]), t)]

InitRBT ==
    /\ InitFault
    /\ mkr_scale < 0
    /\ Blocked(store["T"]) = {}

NextRBT ==
    \E p \in Procs :
        \E A \in Crosses, Q \in AxisOrthogonals, t \in {Zero3, <<1, 2, 3>>} :
            \E B \in {Moved(A, Q, t)} : RBT(p, A, B)

\* One caller of the rigid fit solver.
SpecRBT == InitRBT /\ [][NextRBT]_vars

\* One caller, against a store whose COM calls may fail.
SpecFault == InitFault /\ [][NextFault]_vars

---------------------------------------------------------------------------
(* What the store held for the target when the invocation read it, what it *)
(* holds now, and what the invocation's private copy looks like stored.    *)

Tgt(p) == args[p].tgt

Old(p) == store0[p][Tgt(p)]

Cur(p) == store[Tgt(p)]

New(p) == [pos |-> [f \in Frames |-> [i \in Axes |-> Unscaled(loc[p].coords[f][i], mkr_scale)]],
           res |-> loc[p].resid]

Entered(p) == pc[p] \notin {"off", "idle"}

Finished(p) == pc[p] = "done"

WasValid(p, f) == Old(p).res[f] # -1

IsValid(p, f) == Cur(p).res[f] # -1

Repaired(p, f) == ~WasValid(p, f) /\ Cur(p).res[f] = 0

AxisOf(t, i) == [f \in Frames |-> t.pos[f][i]]

---------------------------------------------------------------------------
\* C1: when an invocation of any of the five strategies has ended, every target
\* frame that was valid before has the position and residual it had, and every
\* frame that was invalid before has residual 0, or still has residual -1 and
\* the position it had.
C1_FramesKeptOrRepaired ==
    \A p \in Procs : Finished(p) =>
        \A f \in Frames :
            IF WasValid(p, f)
            THEN Cur(p).pos[f] = Old(p).pos[f] /\ Cur(p).res[f] = Old(p).res[f]
            ELSE \/ Cur(p).res[f] = 0
                 \/ Cur(p).res[f] = -1 /\ Cur(p).pos[f] = Old(p).pos[f]

\* An invocation on an integer file has ended with a frame kept, a frame
\* repaired and a frame left invalid.
C1_Witness ==
    \E p \in Procs :
        /\ Finished(p) /\ mkr_scale > 0
        /\ \E f, g, h \in Frames :
              /\ WasValid(p, h) /\ Old(p).pos[h] # Zero3
              /\ Repaired(p, f)
              /\ ~WasValid(p, g) /\ ~IsValid(p, g)

\* C2: an invocation whose target had every frame valid, or every frame
\* invalid, ends at once returning updated = false, having made no write: the
\* whole store is as it was.
C2_NoOpOnUniformTarget ==
    \A p \in Procs :
        (Entered(p) /\ ((\A f \in Frames : WasValid(p, f)) \/ (\A f \in Frames : ~WasValid(p, f))))
        => /\ Finished(p)
           /\ loc[p].kind = "return" /\ ~loc[p].updated
           /\ ret[p] = NoRet
           /\ store = store0[p]

\* A pattern fill of a target with no valid frame has returned.
C2_Witness ==
    \E p \in Procs :
        /\ Finished(p) /\ args[p].strategy = "gap_pattern"
        /\ \A f \in Frames : ~WasValid(p, f)

\* C3: the count an invocation returns is the number of target frames whose
\* residual in the store is not -1 when it returns, whether updated or not.
C3_CountIsValidFramesAfter ==
    \A p \in Procs :
        (Finished(p) /\ loc[p].kind = "return")
        => loc[p].count = Cardinality({f \in Frames : IsValid(p, f)})

\* An invocation has returned updated = true with more valid frames than before
\* and some frame still invalid.
C3_Witness ==
    \E p \in Procs :
        /\ Finished(p) /\ loc[p].kind = "return" /\ loc[p].updated
        /\ loc[p].count > Cardinality({f \in Frames : WasValid(p, f)})
        /\ loc[p].count < NFrames

\* The target holds the new positions of some axis and the old ones of another.
MixedAxes(p) ==
    \E i, j \in Axes :
        /\ AxisOf(Cur(p), i) = AxisOf(New(p), i) /\ AxisOf(Cur(p), i) # AxisOf(Old(p), i)
        /\ AxisOf(Cur(p), j) = AxisOf(Old(p), j) /\ AxisOf(Cur(p), j) # AxisOf(New(p), j)

\* The target holds the new position array with the old residual array.
NewPosOldRes(p) ==
    /\ Cur(p).pos = New(p).pos /\ Cur(p).pos # Old(p).pos
    /\ Cur(p).res = Old(p).res /\ Cur(p).res # New(p).res

C5_AllOrNothingOnFailure ==
    \A p \in Procs :
        (Finished(p) /\ ret[p].pos = "False")
        => /\ ret[p].res = "none"
           /\ Cur(p) = Old(p)
           /\ ~loc[p].updated

\* The store after the invocation a has run alone on the store st.
RunAlone(st, a, nd) ==
    With([m \in Markers |-> get_marker_data(st, mkr_scale, m)], LAMBDA aux :
        With(Strategy(a, aux[a.tgt], aux, nd), LAMBDA out :
            IF out.write
            THEN [st EXCEPT ![a.tgt] =
                    [pos |-> [f \in Frames |-> [i \in Axes |->
                                 Unscaled(out.coords[f][i], mkr_scale)]],
                     res |-> out.resid]]
            ELSE st))

\* The stores the invocations a then b, run one after the other, may leave.
InSequence(st, a, b) ==
    {RunAlone(RunAlone(st, a, n1), b, n2) : n1 \in Undetermined, n2 \in Undetermined}

\* The store before either of the two invocations: each target as its own
\* invocation read it.
Start0 == [store0[1] EXCEPT ![Tgt(2)] = store0[2][Tgt(2)]]

BothFinished == \A p \in Procs : Finished(p)

Reads(p, q) == Tgt(q) \in ReadsOf(args[p])

\* C6 as stated: two concurrent invocations on different targets leave the store
\* as either sequential order would, also when the target of one is a cluster or
\* donor marker of the other.
C6_AsEitherOrder ==
    BothFinished =>
        /\ store \in InSequence(Start0, args[1], args[2])
        /\ store \in InSequence(Start0, args[2], args[1])

\* C6 as the code has it: when neither invocation reads the other's target the
\* store is left as either sequential order would leave it; when just one of
\* them reads the other's target, as one of the two orders would.
C6_AsEitherOrderWhenIndependent ==
    BothFinished =>
        /\ (~Reads(1, 2) /\ ~Reads(2, 1))
            => /\ store \in InSequence(Start0, args[1], args[2])
               /\ store \in InSequence(Start0, args[2], args[1])
        /\ ~(Reads(1, 2) /\ Reads(2, 1))
            => \/ store \in InSequence(Start0, args[1], args[2])
               \/ store \in InSequence(Start0, args[2], args[1])

\* Two invocations that read nothing of each other have both repaired their
\* targets.
C6_Witness ==
    /\ BothFinished
    /\ ~Reads(1, 2) /\ ~Reads(2, 1)
    /\ \A p \in Procs : loc[p].updated /\ \E f \in Frames : Repaired(p, f)

\* The target had valid and invalid frames when the invocation read it.
Mixed(p) == (\E f \in Frames : WasValid(p, f)) /\ (\E f \in Frames : ~WasValid(p, f))

\* Every cluster or donor marker of the invocation was valid at frame f.
OthersValid(p, f) == \A m \in ReadsOf(args[p]) : store0[p][m].res[f] # -1

\* The anchor frames: the target and every cluster or donor marker valid.
Anchors(p) == {f \in Frames : WasValid(p, f) /\ OthersValid(p, f)}

LacksAnchor(p, f) ==
    (\A g \in Anchors(p) : g > f) \/ (\A g \in Anchors(p) : g < f)

NoWrite(p) == store = store0[p] /\ ret[p] = NoRet

\* C7 as stated: in the rigid-body gap fill and the pattern gap fill an invalid
\* target frame with no anchor before it, or none after it, is skipped: the
\* invocation returns without raising and the frame is still invalid.
C7_LoneAnchorSkipped ==
    \A p \in Procs :
        (Finished(p) /\ args[p].strategy \in {"gap_rigidbody", "gap_pattern"})
        => \A f \in Frames :
              (~WasValid(p, f) /\ LacksAnchor(p, f))
              => loc[p].kind = "return" /\ ~IsValid(p, f)

\* C8: a strategy returns updated = true exactly when some frame of the target
\* that was invalid has residual 0 in the store afterwards; when no frame was
\* repaired the store has not been written at all.
C8_UpdatedIffRepaired ==
    \A p \in Procs : Finished(p) =>
        /\ loc[p].updated <=> (\E f \in Frames : Repaired(p, f))
        /\ (\A f \in Frames : ~Repaired(p, f)) => NoWrite(p)

\* A spline fill of a target with valid and invalid frames has returned
\* updated = false.
C8_Witness ==
    \E p \in Procs :
        /\ Finished(p) /\ args[p].strategy = "gap_interp" /\ Mixed(p)
        /\ loc[p].kind = "return" /\ ~loc[p].updated

\* C9: a cluster strategy called when no frame has the target and all cluster
\* markers valid, or no frame has all cluster markers valid and the target
\* invalid, returns (False, number of valid target frames), raises nothing and
\* writes nothing; so does the pattern fill when donor and target share no valid
\* frame.
C9_NoCommonFrameNoUpdate ==
    \A p \in Procs :
        (/\ Finished(p)
         /\ \/ /\ args[p].strategy \in ClusterStrategies
               /\ \/ Anchors(p) = {}
                  \/ \A f \in Frames : ~(OthersValid(p, f) /\ ~WasValid(p, f))
            \/ args[p].strategy = "gap_pattern" /\ Anchors(p) = {})
        => /\ loc[p].kind = "return" /\ ~loc[p].updated
           /\ loc[p].count = Cardinality({f \in Frames : WasValid(p, f)})
           /\ NoWrite(p)

\* A rigid-body recovery of a target with valid and invalid frames, none of the
\* invalid ones with the whole cluster valid, has ended.
C9_Witness ==
    \E p \in Procs :
        /\ Finished(p) /\ args[p].strategy = "rigidbody" /\ Mixed(p)
        /\ Anchors(p) # {}
        /\ \A f \in Frames : ~(OthersValid(p, f) /\ ~WasValid(p, f))

\* C10: the relative and the rigid-body recovery, called with fewer than three
\* cluster markers on a target with valid and invalid frames, end without an
\* update, returning False or raising IndexError, and write nothing.
C10_ShortClusterAborts ==
    \A p \in Procs :
        (/\ Finished(p) /\ Mixed(p)
         /\ args[p].strategy \in {"relative", "rigidbody"}
         /\ Cardinality(ReadsOf(args[p])) < 3)
        => /\ ~loc[p].updated
           /\ loc[p].kind = "raise" => loc[p].exc = "IndexError"
           /\ NoWrite(p)

\* A recovery with two cluster markers, which could have repaired a frame, has
\* raised.
C10_Witness ==
    \E p \in Procs :
        /\ Finished(p) /\ Mixed(p)
        /\ args[p].strategy \in {"relative", "rigidbody"}
        /\ Cardinality(ReadsOf(args[p])) < 3
        /\ loc[p].kind = "raise"

\* The array passed to the update function called.
Passed(p) == IF args[p].strategy = "update_marker_pos" THEN loc[p].coords ELSE loc[p].resid

InEdgeGap(p, f) ==
    \/ \A g \in 0..f : ~WasValid(p, g)
    \/ \A g \in f..(NFrames - 1) : ~WasValid(p, g)

\* C12: the spline gap fill leaves every frame of a gap that holds the first or
\* the last frame with residual -1 and its position, whatever k,
\* search_span_offset and min_needed_frs are.
C12_EdgeGapsKept ==
    \A p \in Procs :
        (Finished(p) /\ args[p].strategy = "gap_interp")
        => \A f \in Frames :
              InEdgeGap(p, f) => Cur(p).res[f] = -1 /\ Cur(p).pos[f] = Old(p).pos[f]

\* A spline fill has repaired an interior gap and left a gap at the last frame
\* that had enough valid frames before it.
C12_Witness ==
    \E p \in Procs :
        /\ Finished(p) /\ args[p].strategy = "gap_interp" /\ loc[p].updated
        /\ ~WasValid(p, NFrames - 1)
        /\ Cardinality({f \in Frames : WasValid(p, f)}) >= args[p].min_needed_frs

\* The greatest anchor below f and the least anchor above it.
AnchorBelow(p, f) == SetMax({g \in Anchors(p) : g < f})

AnchorAbove(p, f) == SetMin({g \in Anchors(p) : g > f})

\* Target minus donor at frame g, as the invocation read them.
Offset(p, g) == VSub(Old(p).pos[g], store0[p][args[p].dnr].pos[g])

\* C13 as stated: in the pattern gap fill, when target minus donor is the same
\* vector c at both bracket frames, a frame repaired between them holds exactly
\* the donor's position at that frame plus c.
C13_ConstantOffsetExact ==
    \A p \in Procs :
        (Finished(p) /\ args[p].strategy = "gap_pattern" /\ mkr_scale < 0)
        => \A f \in Frames :
              (/\ Repaired(p, f)
               /\ Offset(p, AnchorBelow(p, f)) = Offset(p, AnchorAbove(p, f)))
              => LET sum == VAdd(store0[p][args[p].dnr].pos[f], Offset(p, AnchorBelow(p, f)))
                 IN  Cur(p).pos[f] = sum \/ Cur(p).pos[f] = FlV(sum)

\* C14: the matrix RBT returns is a proper rotation, orthogonal with determinant
\* +1, also when the product U.Vt of the factors has determinant -1.
C14_RBTProper ==
    \A p \in Procs :
        (Finished(p) /\ args[p].strategy = "RBT")
        => /\ Det(loc[p].R) = 1
           /\ MatMul(loc[p].R, Transpose(loc[p].R)) = Ident

\* RBT has returned where the product of the factors was a reflection.
C14_Witness ==
    \E p \in Procs :
        /\ Finished(p) /\ args[p].strategy = "RBT"
        /\ Det(MatMul(loc[p].U, loc[p].Vt)) = -1

\* Frame f lies strictly between two anchors, and every cluster or donor marker
\* is valid on every frame from the nearest anchor below to the nearest above.
Bracketed(p, f) ==
    /\ \E g \in Anchors(p) : g < f
    /\ \E g \in Anchors(p) : g > f
    /\ \A g \in AnchorBelow(p, f)..AnchorAbove(p, f) : OthersValid(p, g)

\* C15: when the rigid-body gap fill has ended, a target frame that was invalid
\* is valid exactly when it lies between two anchors, the nearest below and the
\* nearest above, with every cluster marker valid on all frames from one to the
\* other; every other invalid frame is still invalid.
C15_RigidFillExactly ==
    \A p \in Procs :
        (Finished(p) /\ args[p].strategy = "gap_rigidbody")
        => \A f \in Frames : ~WasValid(p, f) => (IsValid(p, f) <=> Bracketed(p, f))

\* The rigid-body gap fill has ended having repaired one frame and left
\* another, between anchors, across which a cluster marker was blocked.
C15_Witness ==
    \E p \in Procs :
        /\ Finished(p) /\ args[p].strategy = "gap_rigidbody"
        /\ \E f, g \in Frames :
              /\ Repaired(p, f) /\ Bracketed(p, f)
              /\ ~WasValid(p, g) /\ ~IsValid(p, g) /\ ~Bracketed(p, g)
              /\ (\E h \in Anchors(p) : h < g) /\ (\E h \in Anchors(p) : h > g)

\* C16: when the pattern gap fill has ended, a target frame that was invalid is
\* valid exactly when it lies between two frames at which target and donor
\* were both valid, the nearest below and the nearest above, with the donor
\* valid on all frames from one to the other.
C16_PatternFillExactly ==
    \A p \in Procs :
        (Finished(p) /\ args[p].strategy = "gap_pattern")
        => \A f \in Frames : ~WasValid(p, f) => (IsValid(p, f) <=> Bracketed(p, f))

\* The pattern gap fill has ended having repaired one frame and left another,
\* between both-valid frames, across which the donor was blocked.
C16_Witness ==
    \E p \in Procs :
        /\ Finished(p) /\ args[p].strategy = "gap_pattern"
        /\ \E f, g \in Frames :
              /\ Repaired(p, f) /\ Bracketed(p, f)
              /\ ~WasValid(p, g) /\ ~IsValid(p, g) /\ ~Bracketed(p, g)
              /\ (\E h \in Anchors(p) : h < g) /\ (\E h \in Anchors(p) : h > g)

\* The interior gaps of the target as the invocation read it: maximal runs of
\* invalid frames that hold neither the first frame nor the last.
InteriorGaps(p) ==
    {g \in Frames \X Frames :
        /\ 0 < g[1] /\ g[1] <= g[2] /\ g[2] < NFrames - 1
        /\ \A f \in g[1]..g[2] : ~WasValid(p, f)
        /\ WasValid(p, g[1] - 1) /\ WasValid(p, g[2] + 1)}

\* The valid frames within s frames before the gap g and s frames after it,
\* s = ceil(length / 2) + search_span_offset.
Window(p, g) ==
    LET s == CeilDiv(g[2] - g[1] + 1, 2) + args[p].search_span_offset
    IN  {f \in Frames : WasValid(p, f) /\ (f \in (g[1] - s)..(g[1] - 1) \/ f \in (g[2] + 1)..(g[2] + s))}

\* C17 as stated: when the spline gap fill has ended, an interior gap is repaired
\* exactly when its window holds at least min_needed_frs valid frames: then every
\* frame of the gap is valid, otherwise every frame of it is still invalid.
C17_WindowCountDecides ==
    \A p \in Procs :
        (Finished(p) /\ args[p].strategy = "gap_interp")
        => \A g \in InteriorGaps(p) :
              IF Cardinality(Window(p, g)) >= args[p].min_needed_frs
              THEN \A f \in g[1]..g[2] : Repaired(p, f)
              ELSE \A f \in g[1]..g[2] : ~IsValid(p, f)

\* The recovery of p has ended in success: it returned True after its write-back.
Recovered(p) ==
    /\ Finished(p) /\ args[p].strategy \in {"relative", "rigidbody"}
    /\ loc[p].kind = "return" /\ loc[p].updated

\* What the invocation read: the target and every marker of the file.
Tgt0(p) == get_marker_data(store0[p], mkr_scale, Tgt(p))

Aux0(p) == [m \in DOMAIN store0[p] |-> get_marker_data(store0[p], mkr_scale, m)]

\* The three reference markers the recovery selected.
Refs(p) == {SortedByDist(Tgt0(p), Aux0(p), args[p].cl)[i] : i \in 1..3}

RefsValid(p, f) == \A m \in Refs(p) : store0[p][m].res[f] # -1

\* C18 as stated: when a recovery has ended in success, a frame at which the
\* target was invalid is valid exactly when the three selected reference markers
\* were valid at it, whatever the size of the cluster.
C18_RepairsWhereRefsValid ==
    \A p \in Procs :
        Recovered(p)
        => \A f \in Frames : ~WasValid(p, f) => (IsValid(p, f) <=> RefsValid(p, f))

\* The trajectories of the three selected reference markers, in order.
Refs3(p) ==
    With(Aux0(p), LAMBDA aux :
        With(SortedByDist(Tgt0(p), aux, args[p].cl), LAMBDA srt :
            <<aux[srt[1]].coords, aux[srt[2]].coords, aux[srt[3]].coords>>))

\* What a buffer that np.divide leaves unfilled may hold.
Junks == {nd.junk : nd \in Undetermined}

\* The target seen from the references at the anchor a: in their frame (the
\* relative recovery), or as a vector turned to frame f (the rigid-body one).
Seen(p, r, rot, f, a) ==
    LET v == VSub(ScaledOf(Old(p).pos[a], mkr_scale), r[1][a])
    IN  IF args[p].strategy = "relative"
        THEN MatVec(Transpose(rot[a]), v)
        ELSE MatVec(MatMul(rot[f], Transpose(rot[a])), v)

Placed(p, r, rot, f, v) ==
    IF args[p].strategy = "relative"
    THEN VAdd(r[1][f], MatVec(rot[f], v))
    ELSE VAdd(r[1][f], v)

HasBelow(p, f) == \E g \in Anchors(p) : g < f

HasAbove(p, f) == \E g \in Anchors(p) : g > f

\* The position C19 gives the repaired frame f: between two anchors the blend
\* with weight b/(a+b) on the anchor below and a/(a+b) on the one above,
\* a = f - f0, b = f1 - f; with anchors on one side only, the nearest alone.
Weighted(p, r, rot, f) ==
    IF HasBelow(p, f) /\ HasAbove(p, f)
    THEN LET f0 == AnchorBelow(p, f)
             f1 == AnchorAbove(p, f)
             a == f - f0
             b == f1 - f
         IN  Placed(p, r, rot, f,
                    VDiv(VAdd(VScale(b, Seen(p, r, rot, f, f0)),
                              VScale(a, Seen(p, r, rot, f, f1))), a + b))
    ELSE IF HasBelow(p, f) THEN Placed(p, r, rot, f, Seen(p, r, rot, f, AnchorBelow(p, f)))
    ELSE Placed(p, r, rot, f, Seen(p, r, rot, f, AnchorAbove(p, f)))

\* C19: when a recovery has ended in success, every frame it repaired holds the
\* position carried from the nearest anchor below and the nearest above with
\* the weights b/(a+b) and a/(a+b), or from the single nearest anchor when the
\* anchors lie on one side only (for some content of the unfilled buffers,
\* which the frames of degenerate references take their axes from).
C19_BlendWeights ==
    \A p \in Procs :
        Recovered(p)
        => With(Refs3(p), LAMBDA r :
             \E junk \in Junks :
               With([f \in Frames |-> FrameRot(r[1][f], r[2][f], r[3][f], junk)], LAMBDA rot :
                 \A f \in Frames :
                    Repaired(p, f) => loc[p].coords[f] = Weighted(p, r, rot, f)))

\* A recovery has ended having repaired a frame nearer one of its two anchors
\* than the other, and a frame with anchors on one side only.
C19_Witness ==
    \E p \in Procs :
        /\ Recovered(p)
        /\ \E f \in Frames :
              /\ Repaired(p, f) /\ HasBelow(p, f) /\ HasAbove(p, f)
              /\ f - AnchorBelow(p, f) # AnchorAbove(p, f) - f
        /\ \E f \in Frames : Repaired(p, f) /\ ~(HasBelow(p, f) /\ HasAbove(p, f))

\* The place of the marker m in the caller's list: its first occurrence.
ListPos(p, m) == SetMin({i \in 1..Len(args[p].cl) : args[p].cl[i] = m})

\* m comes before n in the order C20 names: nearer the target in the mean, or
\* equally near and listed earlier.
Before(p, dist, m, n) ==
    dist[m] < dist[n] \/ (dist[m] = dist[n] /\ ListPos(p, m) < ListPos(p, n))

\* C20: when a recovery has ended in success, the reference markers it selected
\* are the three cluster markers with the smallest mean distance to the target,
\* in ascending order, markers equally far in the order of the caller's list.
C20_ThreeNearestInOrder ==
    \A p \in Procs :
        Recovered(p)
        => With(Aux0(p), LAMBDA aux :
             With([m \in ReadsOf(args[p]) |-> MeanDistN(Tgt0(p), aux[m])], LAMBDA dist :
               With(SortedByDist(Tgt0(p), aux, args[p].cl), LAMBDA srt :
                 /\ Before(p, dist, srt[1], srt[2]) /\ Before(p, dist, srt[2], srt[3])
                 /\ \A m \in ReadsOf(args[p]) \ {srt[1], srt[2], srt[3]} :
                       Before(p, dist, srt[3], m))))

\* A recovery has ended in success on a cluster of four whose third and fourth
\* nearest markers are equally far from the target.
C20_Witness ==
    \E p \in Procs :
        /\ Recovered(p) /\ Len(args[p].cl) = 4
        /\ With(Aux0(p), LAMBDA aux :
              With(SortedByDist(Tgt0(p), aux, args[p].cl), LAMBDA srt :
                 MeanDistN(Tgt0(p), aux[srt[3]]) = MeanDistN(Tgt0(p), aux[srt[4]])))

\* The file st with the position v stored at every frame at which a marker is
\* invalid: an input that differs from st only in those positions.
Refilled(st, v) ==
    [m \in DOMAIN st |->
        [pos |-> [f \in Frames |-> IF st[m].res[f] = -1 THEN v ELSE st[m].pos[f]],
         res |-> st[m].res]]

\* What a blocked frame may hold in place of zeros.
StalePositions == {<<60, 0, 0>>, <<0, 0, 60>>}

\* The three reference markers selected on the file st, in order.
SelectedOn(p, st) ==
    With([m \in DOMAIN st |-> get_marker_data(st, mkr_scale, m)], LAMBDA aux :
        With(SortedByDist(aux[Tgt(p)], aux, args[p].cl), LAMBDA srt :
            <<srt[1], srt[2], srt[3]>>))

\* C21 as stated: the reference markers a recovery selects do not depend on the
\* positions stored at frames where the target or the candidate is invalid:
\* the file with other positions at those frames gives the same three markers
\* in the same order.
C21_RankIgnoresInvalidFrames ==
    \A p \in Procs :
        Recovered(p)
        => \A v \in StalePositions :
              SelectedOn(p, Refilled(store0[p], v)) = SelectedOn(p, store0[p])

\* The frames the rigid-body recovery repairs on the file p read, whatever the
\* unfilled buffers hold: valid in the array it writes back.
RecoveryRepairs(p, f) ==
    \A nd \in Undetermined :
        With(recover_marker_rigidbody(Tgt0(p), Aux0(p), args[p].cl, nd), LAMBDA out :
            out.write /\ out.resid[f] = 0 /\ ~WasValid(p, f))

\* C22: a frame the rigid-body gap fill has repaired, with a cluster of at
\* least three markers, is a frame the rigid-body recovery repairs on the same
\* file with the same target and cluster.
C22_GapFillWithinRecovery ==
    \A p \in Procs :
        (Finished(p) /\ args[p].strategy = "gap_rigidbody" /\ Len(args[p].cl) >= 3)
        => \A f \in Frames : Repaired(p, f) => RecoveryRepairs(p, f)

\* The rigid-body gap fill has ended having repaired a frame and left invalid
\* another that the recovery repairs.
C22_Witness ==
    \E p \in Procs :
        /\ Finished(p) /\ args[p].strategy = "gap_rigidbody" /\ Len(args[p].cl) >= 3
        /\ \E f, g \in Frames :
              /\ Repaired(p, f) /\ RecoveryRepairs(p, f)
              /\ ~IsValid(p, g) /\ RecoveryRepairs(p, g)

\* The three selected reference markers are collinear at frame a, or two of
\* them coincide: a vector of the frame construction has length zero.
Degenerate(p, a) ==
    With(Refs3(p), LAMBDA r :
        Cross(VSub(r[2][a], r[1][a]), VSub(r[3][a], r[1][a])) = Zero3)

\* The anchors the repair of frame f is computed from: the nearest below and
\* the nearest above, where there is one.
UsedAnchors(p, f) ==
    {a \in Anchors(p) : (a < f /\ a = AnchorBelow(p, f)) \/ (a > f /\ a = AnchorAbove(p, f))}

\* C23 as stated: when a recovery has ended in success, no frame it repaired
\* was computed from an anchor at which the frame construction is degenerate.
C23_DegenerateNotAnchor ==
    \A p \in Procs :
        Recovered(p)
        => \A f \in Frames :
              Repaired(p, f) => \A a \in UsedAnchors(p, f) : ~Degenerate(p, a)

GapFills == {"gap_rigidbody", "gap_pattern", "gap_interp"}

\* The gaps of the target as the invocation read it: the maximal runs of
\* consecutive invalid frames, each as <<first, last>>.
OldGaps(p) ==
    {g \in Frames \X Frames :
        /\ g[1] <= g[2]
        /\ \A f \in g[1]..g[2] : ~WasValid(p, f)
        /\ (g[1] = 0 \/ WasValid(p, g[1] - 1))
        /\ (g[2] = NFrames - 1 \/ WasValid(p, g[2] + 1))}

\* C24: when a gap fill has ended, every gap of the trajectory it read is
\* valid on all of its frames or invalid on all of them.
C24_GapsWholeOrNot ==
    \A p \in Procs :
        (Finished(p) /\ args[p].strategy \in GapFills)
        => \A g \in OldGaps(p) :
              \/ \A f \in g[1]..g[2] : IsValid(p, f)
              \/ \A f \in g[1]..g[2] : ~IsValid(p, f)

\* A gap fill has ended having repaired a gap of several frames and left
\* another gap as it was.
C24_Witness ==
    \E p \in Procs :
        /\ Finished(p) /\ args[p].strategy \in GapFills
        /\ \E g, h \in OldGaps(p) :
              /\ g[1] < g[2] /\ \A f \in g[1]..g[2] : Repaired(p, f)
              /\ \A f \in h[1]..h[2] : ~IsValid(p, f)

\* The invocation of p has ended in success, whatever the strategy.
Succeeded(p) == Finished(p) /\ loc[p].kind = "return" /\ loc[p].updated

\* The gap of the trajectory p read that holds the frame f.
GapOf(p, f) == CHOOSE g \in OldGaps(p) : f \in g[1]..g[2]

\* The position the strategy of p gives the frame f when f (for the spline
\* fill, the gap of f) is the only one processed, from the data read at the
\* start of the call.
Alone(p, f, nd) ==
    LET a == args[p]
        tgt == Tgt0(p)
        aux == Aux0(p)
        tmask == ValidMask(tgt.resid)
    IN  CASE a.strategy \in {"relative", "rigidbody"} ->
               With(ClusterMask(aux, a.cl), LAMBDA cmask :
                   WithReferences(tgt, aux, SortedByDist(tgt, aux, a.cl),
                                  {g \in Frames : cmask[g] /\ tmask[g]}, {f},
                                  nd.junk, a.strategy = "relative").coords[f])
          [] a.strategy = "gap_rigidbody" ->
               With(ClusterMask(aux, a.cl), LAMBDA cmask :
                   RigidFillLoop({f}, Work(tgt), aux, a.cl, cmask,
                                 {g \in Frames : cmask[g] /\ tmask[g]}, nd).coords[f])
          [] a.strategy = "gap_pattern" ->
               With(ValidMask(aux[a.dnr].resid), LAMBDA dmask :
                   PatternLoop({f}, Work(tgt), aux[a.dnr], dmask,
                               {g \in Frames : tmask[g] /\ dmask[g]}).coords[f])
          [] a.strategy = "gap_interp" ->
               InterpLoop({GapOf(p, f)}, Work(tgt), tmask,
                          a.k, a.search_span_offset, a.min_needed_frs).coords[f]

\* C25: when an invocation has ended in success, every frame it repaired holds
\* the position computed for that frame alone from the data read at the start
\* of the call: nothing repaired earlier in the invocation entered it, and the
\* order of processing does not show.
C25_RepairsFromDataRead ==
    \A p \in Procs :
        Succeeded(p)
        => \E nd \in Undetermined :
              \A f \in Frames : Repaired(p, f) => loc[p].coords[f] = Alone(p, f, nd)

\* An invocation has ended having repaired two frames of one gap, or two gaps.
C25_Witness ==
    \E p \in Procs :
        /\ Succeeded(p)
        /\ \E f, g \in Frames : f < g /\ Repaired(p, f) /\ Repaired(p, g)

\* C26: when the second of two successive invocations of a recovery, of the
\* rigid-body gap fill or of the pattern gap fill with the same arguments has
\* ended, it has returned updated = False and the store is as the first left it.
C26_SecondCallNoOp ==
    (Finished(2) /\ args[2].strategy \in {"relative", "rigidbody", "gap_rigidbody", "gap_pattern"})
    => /\ loc[2].kind = "return" /\ ~loc[2].updated
       /\ store = store0[2]

\* The second invocation has ended after a first that repaired frames and left
\* others invalid.
C26_Witness ==
    /\ Finished(2) /\ args[2].strategy \in {"relative", "rigidbody", "gap_rigidbody", "gap_pattern"}
    /\ loc[1].updated
    /\ \E f \in Frames : ~IsValid(2, f)

\* C27: when the spline gap fill has been invoked a second time with the same
\* settings right after an invocation that returned, the second invocation has
\* returned updated = False and has marked no further frame valid.
C27_SplineSecondCallNoOp ==
    (pc[2] = "done" /\ args[2].strategy = "gap_interp" /\ loc[1].kind = "return")
    => /\ loc[2].kind = "return" /\ ~loc[2].updated
       /\ loc[2].after = loc[2].before

\* The position the invocation of p computed for frame f, as the store holds it
\* once written.
FinalPos(p, f) == [i \in Axes |-> Unscaled(loc[p].coords[f][i], mkr_scale)]

\* C28: in every state, a frame of the target that the invocation has turned
\* from invalid to residual 0 holds the position the invocation computed for it.
C28_PositionBeforeResidual ==
    \A p \in Procs : \A f \in Frames :
        (pc[p] \in {"wx", "wy", "wz", "w1", "wr", "r1", "done"} /\ loc[p].write /\ Repaired(p, f))
        => Cur(p).pos[f] = FinalPos(p, f)

\* C29: from the moment a strategy is invoked, whatever it does and however it
\* ends, every marker of the store other than its target holds the positions
\* and residuals it held at the invocation.
C29_OnlyTargetWritten ==
    \A p \in Procs :
        pc[p] \notin {"off", "idle"}
        => \A m \in DOMAIN store : m # Tgt(p) => store[m] = store0[p][m]

\* A strategy that read cluster markers has ended after changing its target.
C29_Witness ==
    \E p \in Procs :
        /\ Finished(p) /\ args[p].cl # <<>>
        /\ loc[p].updated /\ Cur(p) # Old(p)

\* The bracket frames <<f0, f1>> the gap fills take for frame f.
FillBracket(p, f) ==
    With(BracketIdx(Anchors(p), f),
         LAMBDA ix : <<NpIndex(Anchors(p), ix[1]), NpIndex(Anchors(p), ix[2])>>)

\* The recoveries blend for frame f: an anchor on either side of it.
RecoveryBlends(p, f) ==
    /\ SearchSorted(Anchors(p), f) > 0
    /\ SearchSorted(Anchors(p), f) < Cardinality(Anchors(p))

\* The bracket frames <<f0, f1>> the recoveries take for frame f.
RecoveryBracket(p, f) ==
    <<Nth(Anchors(p), SearchSorted(Anchors(p), f) - 1), Nth(Anchors(p), SearchSorted(Anchors(p), f))>>

\* f0 < f < f1: both distances at least 1, the divisor at least 2.
Strictly(br, f) ==
    /\ br[1] < f /\ f < br[2]
    /\ f - br[1] >= 1 /\ br[2] - f >= 1
    /\ (f - br[1]) + (br[2] - f) >= 2 /\ br[2] - br[1] >= 2

\* C30: every frame a gap fill has repaired, and every frame a recovery has
\* repaired with an anchor on either side, lies strictly between the two
\* bracket frames it was blended from, so the divisor of the blend is at
\* least 2.
C30_BlendStrictlyInside ==
    \A p \in Procs : \A f \in Frames :
        (pc[p] \notin {"off", "idle", "called"} /\ loc[p].kind = "return" /\ loc[p].updated
         /\ ~WasValid(p, f) /\ loc[p].resid[f] = 0)
        => /\ args[p].strategy \in {"gap_rigidbody", "gap_pattern"}
              => Strictly(FillBracket(p, f), f)
           /\ (args[p].strategy \in {"relative", "rigidbody"} /\ RecoveryBlends(p, f))
              => Strictly(RecoveryBracket(p, f), f)

\* A gap fill and a recovery have each blended a frame between two anchors
\* that are more than two frames apart.
C30_Witness ==
    \E p \in Procs : \E f \in Frames :
        /\ Finished(p) /\ loc[p].kind = "return" /\ Repaired(p, f)
        /\ args[p].strategy \in {"gap_rigidbody", "gap_pattern", "relative", "rigidbody"}
        /\ RecoveryBlends(p, f)
        /\ FillBracket(p, f)[2] - FillBracket(p, f)[1] > 2

====
